---- MODULE Spec2Model ----
(***************************************************************************)
(* A model of the ThorVG software rasterizer (sw_engine/tvgSwRaster.cpp)   *)
(* and of the renderer's composite contexts (sw_engine/tvgSwRenderer.cpp). *)
(*                                                                         *)
(* A 32-bit pixel word is the tuple <<b3, b2, b1, b0>> of its four bytes,  *)
(* b3 being bits 24..31 (c >> 24) and b0 bits 0..7 (c & 0xff), so that     *)
(* every shift, mask and 32-bit sum of the source is computed exactly.     *)
(* A uint32_t counter is kept as the two's-complement reading of its 32    *)
(* bits (0xFFFFFFFF is -1) and compared with ULess, which orders the       *)
(* unsigned values.                                                        *)
(***************************************************************************)
EXTENDS Integers, Sequences, FiniteSets, TLC

VARIABLES
    surface,     \* SwSurface: the destination (cs, channelSize, stride, w, h, blender, buf)
    compositor,  \* surface->compositor: NoCompositor or (method, image, bbox)
    pc,          \* "ready" before the call, "done" after it returned, "hung" if it never returns
    call,        \* the entry point called and its arguments
    ret,         \* the bool the call returned
    before       \* the destination and compositor buffers when the call started

vars == <<surface, compositor, pc, call, ret, before>>

(***************************************************************************)
(* Bounds of the model.                                                    *)
(***************************************************************************)
SurfW == 3        \* surface width in pixels
SurfH == 2        \* surface height in pixels
StridePad == 1    \* the destination's stride is SurfW + StridePad elements
ImgScale == 4     \* a down-scaled image is ImgScale times the surface each way

(***************************************************************************)
(* Pixel algebra.                                                          *)
(***************************************************************************)
Px(b3, b2, b1, b0) == <<b3, b2, b1, b0>>
Zero32 == Px(0, 0, 0, 0)

\* byte k (0 = lowest address on a little-endian build) of the word c
ByteAt(c, k) == c[4 - k]

\* a + b of two uint32_t words: the carries run through the bytes, bit 32 is dropped
Add32(p, q) ==
    LET s0 == p[4] + q[4]
        s1 == p[3] + q[3] + (s0 \div 256)
        s2 == p[2] + q[2] + (s1 \div 256)
        s3 == p[1] + q[1] + (s2 \div 256)
    IN  Px(s3 % 256, s2 % 256, s1 % 256, s0 % 256)

\* one channel of alpha_blend: x * a / 255, with blend(c, 255) = c and blend(c, 0) = 0
ALPHA_BLEND(c, a) ==
    LET ch(x) == (x * a * 257 + 32768) \div 65536
    IN  Px(ch(c[1]), ch(c[2]), ch(c[3]), ch(c[4]))

\* blend(s, a) + blend(d, 255 - a) on the packed bytes, without cross-channel carry
INTERPOLATE(s, d, a) ==
    LET x == ALPHA_BLEND(s, a)
        y == ALPHA_BLEND(d, 255 - a)
    IN  Px((x[1] + y[1]) % 256, (x[2] + y[2]) % 256, (x[3] + y[3]) % 256, (x[4] + y[4]) % 256)

\* 8-bit: src * a / 255 + dst * (255 - a) / 255
INTERPOLATE8(s, d, a) == ((s * a) \div 255 + (d * (255 - a)) \div 255) % 256

\* c * a / 255 on one byte
MULTIPLY(c, a) == (c * a) \div 255

\* alpha(c) = c >> 24, iAlpha = 255 - alpha, on a pixel word
ALPHA32(c) == c[1]
IALPHA32(c) == 255 - c[1]

\* ALPHA(uint8_t* a) and IALPHA(uint8_t* a): the byte the pointer addresses
ALPHA(byte) == byte
IALPHA(byte) == 255 - byte

abgrLuma(v) == ((v[4] * 54 + v[3] * 183 + v[2] * 19) \div 256) % 256
argbLuma(v) == ((v[4] * 19 + v[3] * 183 + v[2] * 54) \div 256) % 256
abgrInvLuma(v) == 255 - abgrLuma(v)
argbInvLuma(v) == 255 - argbLuma(v)

abgrJoin(r, g, b, a) == Px(a, b, g, r)
argbJoin(r, g, b, a) == Px(a, r, g, b)

(***************************************************************************)
(* CompositeMethod, in the order of the enumeration.                       *)
(***************************************************************************)
MethodOrder ==
    <<"None", "ClipPath", "AlphaMask", "InvAlphaMask", "LumaMask", "InvLumaMask",
      "AddMask", "SubtractMask", "IntersectMask", "DifferenceMask">>
Methods == {MethodOrder[i] : i \in 1..Len(MethodOrder)}
MethodInt(m) == (CHOOSE i \in 1..Len(MethodOrder) : MethodOrder[i] = m) - 1

NoCompositor == [present |-> FALSE]

compositing(cmp) ==
    IF ~cmp.present \/ MethodInt(cmp.method) <= MethodInt("ClipPath") THEN FALSE ELSE TRUE

\* a matte test that leaves InvLumaMask to the mask routines
mattingBelowInvLumaMask(cmp) == MethodInt(cmp.method) < MethodInt("InvLumaMask")

matting(cmp) == MethodInt(cmp.method) < MethodInt("AddMask")


(***************************************************************************)
(* Surfaces, images and buffers.  A buffer is a function from the element  *)
(* offsets 0 .. stride * h - 1 to elements: pixel words on a 32-bit        *)
(* surface, bytes on a grayscale one.                                      *)
(***************************************************************************)

BBox(x0, y0, x1, y1) == [min |-> [x |-> x0, y |-> y0], max |-> [x |-> x1, y |-> y1]]


\* a null SwSurface*; a null buf32 is the empty buffer <<>>
NullSurface == [null |-> TRUE]

NoBlender == [join |-> "unset", alphas |-> <<"unset", "unset", "unset", "unset">>]

\* rasterCompositor: installs the blender the colour space selects
rasterCompositor(s) ==
    LET a01 == [s.blender.alphas EXCEPT ![1] = "ALPHA", ![2] = "IALPHA"]
    IN  IF s.cs \in {"ABGR8888", "ABGR8888S"}
        THEN [ret |-> TRUE,
              surface |-> [s EXCEPT !.blender =
                  [join |-> "abgrJoin",
                   alphas |-> [a01 EXCEPT ![3] = "abgrLuma", ![4] = "abgrInvLuma"]]]]
        ELSE IF s.cs \in {"ARGB8888", "ARGB8888S"}
        THEN [ret |-> TRUE,
              surface |-> [s EXCEPT !.blender =
                  [join |-> "argbJoin",
                   alphas |-> [a01 EXCEPT ![3] = "argbLuma", ![4] = "argbInvLuma"]]]]
        ELSE [ret |-> FALSE,
              surface |-> [s EXCEPT !.blender = [s.blender EXCEPT !.alphas = a01]]]

\* surface->blender.join(r, g, b, a)
Join(s, r, g, b, a) ==
    IF s.blender.join = "abgrJoin" THEN abgrJoin(r, g, b, a) ELSE argbJoin(r, g, b, a)

\* surface->blender.alpha(method) applied to the compositor byte pointer
\* buf8 + k: the alpha functions read that byte, the luma functions the
\* 32-bit word that starts there
MatteAlpha(s, cmp, k) ==
    LET img == cmp.image
        f == s.blender.alphas[MethodInt(cmp.method) - MethodInt("AlphaMask") + 1]
        byte == IF img.channelSize = 1 THEN img.buf[k][1] ELSE ByteAt(img.buf[k \div 4], k % 4)
        word == IF img.channelSize = 1
                THEN Px(img.buf[k + 3][1], img.buf[k + 2][1], img.buf[k + 1][1], img.buf[k][1])
                ELSE img.buf[k \div 4]
    IN  CASE f = "ALPHA" -> ALPHA(byte)
          [] f = "IALPHA" -> IALPHA(byte)
          [] f = "abgrLuma" -> abgrLuma(word)
          [] f = "abgrInvLuma" -> abgrInvLuma(word)
          [] f = "argbLuma" -> argbLuma(word)
          [] f = "argbInvLuma" -> argbInvLuma(word)

\* what a raster call leaves behind: its return value and the two buffers;
\* hang is TRUE when the call never returns
Result(r, dst, cbuf) == [ret |-> r, dst |-> dst, cmp |-> cbuf, hang |-> FALSE]
Hung(dst, cbuf) == [ret |-> FALSE, dst |-> dst, cmp |-> cbuf, hang |-> TRUE]

CmpBuf(cmp) == IF cmp.present THEN cmp.image.buf ELSE <<>>
(***************************************************************************)
(* Loops.  ForRows runs body(y, buf) for y = from, from + 1, ... while     *)
(* y < to; ForSpans runs body(span, buf) over the spans in order.  MapRun  *)
(* is the inner loop over one run of len elements starting at offset start *)
(* (for (x = 0; x < len; ++x, ++dst) *dst = f(x, *dst)).                   *)
(***************************************************************************)
RECURSIVE ForRows(_, _, _, _)
ForRows(body(_, _), y, to, buf) ==
    IF y >= to THEN buf ELSE ForRows(body, y + 1, to, body(y, buf))

RECURSIVE ForSpans(_, _, _, _)
ForSpans(body(_, _), i, spans, buf) ==
    IF i > Len(spans) THEN buf ELSE ForSpans(body, i + 1, spans, body(spans[i], buf))

MapRun(buf, start, len, f(_, _)) ==
    [i \in DOMAIN buf |->
        IF i >= start /\ i < start + len THEN f(i - start, buf[i]) ELSE buf[i]]

\* cRasterPixels(dst, val, offset, len): dst += offset; while (len--) *dst++ = val;
rasterRGBA32(buf, dst, val, offset, len) == MapRun(buf, dst + offset, len, LAMBDA x, old : val)

\* an element of an 8-bit buffer is the one-byte tuple <<v>>
rasterGrayscale8(buf, dst, val, offset, len) ==
    MapRun(buf, dst + offset, len, LAMBDA x, old : <<val>>)

(***************************************************************************)
(* Direct RGBA image: the plain blit, which also ends every mask call.     *)
(***************************************************************************)
rasterDirectRGBAImage(s, image, region, opacity) ==
    LET dbuffer == region.min.y * s.stride + region.min.x
        sbuffer == (region.min.y + image.oy) * image.stride + (region.min.x + image.ox)
        w == region.max.x - region.min.x
        row(y, buf) ==
            LET dst == dbuffer + (y - region.min.y) * s.stride
                src == sbuffer + (y - region.min.y) * image.stride
            IN  IF opacity = 255
                THEN MapRun(buf, dst, w, LAMBDA x, old :
                        Add32(image.buf[src + x], ALPHA_BLEND(old, IALPHA32(image.buf[src + x]))))
                ELSE MapRun(buf, dst, w, LAMBDA x, old :
                        LET tmp == ALPHA_BLEND(image.buf[src + x], opacity)
                        IN  Add32(tmp, ALPHA_BLEND(old, IALPHA32(tmp))))
    IN  [ret |-> TRUE, dst |-> ForRows(row, region.min.y, region.max.y, s.buf)]

\* a mask call that ends without the blit
MaskingCompositionSkipped(s, cmp, cbuf) == Result(TRUE, s.buf, cbuf)

\* "Masking Composition": the compositor buffer blitted onto the destination
MaskingComposition(s, cmp, cbuf) ==
    LET r == rasterDirectRGBAImage(s, [cmp.image EXCEPT !.buf = cbuf], cmp.bbox, 255)
    IN  Result(r.ret, r.dst, cbuf)

(***************************************************************************)
(* Gradient span writer.  A fill is [null, linear, radial, translucent,    *)
(* ramp]; linear and radial share their storage, so the member that does   *)
(* not belong to the fill's kind holds an unrelated value.  fn names the   *)
(* routine: fillLinear looks the ramp up at t = x, fillRadial at           *)
(* t = floor(sqrt(x*x + y*y)); the ramp is padded with its last colour.    *)
(* op is the blend operation applied with the coverage a; for "Matte", mt  *)
(* holds the matte's alpha at each pixel of the run.                       *)
(***************************************************************************)
FltEpsilon == 1

fillSpan(fn, buf, fill, dst, y, x, len, op, a, mt) ==
    LET t(px) == IF fn = "fillLinear" THEN px
                 ELSE CHOOSE k \in 0..(px + y) :
                          k * k <= px * px + y * y /\ px * px + y * y < (k + 1) * (k + 1)
        pixel(px) == fill.ramp[IF t(px) < Len(fill.ramp) THEN t(px) + 1 ELSE Len(fill.ramp)]
        over(src, d) == Add32(src, ALPHA_BLEND(d, IALPHA32(src)))
        blend(c, d, i) ==
            CASE op = "Write" -> c
              [] op = "Blend" -> over(c, d)
              [] op = "AlphaBlend" -> over(ALPHA_BLEND(c, a), d)
              [] op = "Interpolate" -> INTERPOLATE(c, d, a)
              [] op = "AddMask" -> over(ALPHA_BLEND(c, a), d)
              [] op = "SubMask" -> ALPHA_BLEND(d, IALPHA32(ALPHA_BLEND(c, a)))
              [] op = "IntMask" -> ALPHA_BLEND(d, ALPHA32(ALPHA_BLEND(c, a)))
              [] op = "DifMask" ->
                     Add32(ALPHA_BLEND(ALPHA_BLEND(c, a), IALPHA32(d)),
                           ALPHA_BLEND(d, IALPHA32(ALPHA_BLEND(c, a))))
              [] op = "Matte" -> over(ALPHA_BLEND(c, MULTIPLY(mt[i], a)), d)
    IN  MapRun(buf, dst, len, LAMBDA i, old : blend(pixel(x + i), old, i))

(***************************************************************************)
(* The IntersectMask loop of the rect fills.  It walks the compositor bbox *)
(* row by row; at the region's first row it walks the region's rows, and   *)
(* in each of them zeroes pixel by pixel up to the region and updates the  *)
(* w pixels of the region from src (a solid alpha or a gradient fill); any *)
(* other row gets outLen zeroes.  A loop whose counter is where it was     *)
(* after an iteration takes the same branch again for ever: the call never *)
(* returns (hang).                                                         *)
(***************************************************************************)
IntersectInside(src, y2, x, tmp, w, buf) ==
    IF src.kind = "solid"
    THEN MapRun(buf, tmp, w, LAMBDA i, old : ALPHA_BLEND(old, src.a))
    ELSE IF src.kind = "fill"
    THEN fillSpan(src.fn, buf, src.fill, tmp, y2, x, w, "IntMask", 255, <<>>)
    ELSE MapRun(buf, tmp, w,
                LAMBDA i, old :
                    LET p == src.image.buf[(y2 + src.image.oy) * src.image.stride
                                           + (x + src.image.ox) + i]
                    IN  IF src.opacity = 255 THEN ALPHA_BLEND(old, ALPHA32(p))
                        ELSE ALPHA_BLEND(old, ALPHA32(ALPHA_BLEND(p, src.opacity))))

RECURSIVE IntersectWhile(_, _, _, _, _, _, _)
IntersectWhile(src, y2, x, tmp, bbox, region, buf) ==
    LET w == region.max.x - region.min.x
        \* x += w: with w = 0 the loop test finds x as it was
        next(b) == IF x + w = x THEN [buf |-> b, hang |-> TRUE]
                   ELSE IntersectWhile(src, y2, x + w, tmp + w, bbox, region, b)
    IN  IF ~(x < bbox.max.x) THEN [buf |-> buf, hang |-> FALSE]
        ELSE IF x = region.min.x
        THEN next(IntersectInside(src, y2, x, tmp, w, buf))
        ELSE IntersectWhile(src, y2, x + 1, tmp + 1, bbox, region, [buf EXCEPT ![tmp] = Zero32])

RECURSIVE IntersectRegionRows(_, _, _, _, _, _, _)
IntersectRegionRows(src, y2, cmp, cstride, bbox, region, buf) ==
    IF ~(y2 < region.max.y) THEN [buf |-> buf, hang |-> FALSE]
    ELSE LET next(r) ==
                 IF r.hang THEN r
                 ELSE IntersectRegionRows(src, y2 + 1, cmp + cstride, cstride, bbox, region, r.buf)
         IN  next(IntersectWhile(src, y2, bbox.min.x, cmp, bbox, region, buf))

\* k counts the iterations: the image routine keeps one row pointer that
\* it advances by cstride per iteration (src.kind = "image"), the others
\* compute the row pointer from y
RECURSIVE IntersectRows(_, _, _, _, _, _, _, _)
IntersectRows(src, outLen, y, k, cstride, bbox, region, buf) ==
    LET h == region.max.y - region.min.y
        cmp == IF src.kind = "image"
               THEN bbox.min.y * cstride + bbox.min.x + k * cstride
               ELSE y * cstride + bbox.min.x
    IN  IF ~(y < bbox.max.y) THEN [buf |-> buf, hang |-> FALSE]
        ELSE IF y = region.min.y
        THEN LET ny == (y + (h - 1)) + 1    \* y += (h - 1), then the loop's ++y
                 next(r) ==
                     IF r.hang THEN r
                     ELSE IF ny = y THEN [buf |-> r.buf, hang |-> TRUE]
                     ELSE IntersectRows(src, outLen, ny, k + 1, cstride, bbox, region, r.buf)
             IN  next(IntersectRegionRows(src, y, cmp, cstride, bbox, region, buf))
        ELSE IntersectRows(src, outLen, y + 1, k + 1, cstride, bbox, region,
                           rasterRGBA32(buf, cmp, Zero32, 0, outLen))

(***************************************************************************)
(* Rect                                                                    *)
(***************************************************************************)
\* an AddMask rect fill that starts every row at the compositor's column 0
rasterMaskedRectAtRowStart(s, cmp, region, r, g, b, a) ==
    LET w == region.max.x - region.min.x
        h == region.max.y - region.min.y
        cstride == cmp.image.stride
        color == Join(s, r, g, b, a)
    IN  MaskingComposition(s, cmp,
            ForRows(LAMBDA y, buf :
                        MapRun(buf, (region.min.y + y) * cstride, w,
                               LAMBDA x, old : Add32(color, ALPHA_BLEND(old, 255 - a))),
                    0, h, cmp.image.buf))

rasterMaskedRect(s, cmp, region, r, g, b, a) ==
    IF s.channelSize # 4 THEN Result(FALSE, s.buf, cmp.image.buf)
    ELSE
    LET w == region.max.x - region.min.x
        h == region.max.y - region.min.y
        cstride == cmp.image.stride
        cbuffer == region.min.y * cstride + region.min.x
        color == Join(s, r, g, b, a)
        ialpha == 255 - a
        method == cmp.method
        rows(f(_, _)) ==
            ForRows(LAMBDA y, buf : MapRun(buf, cbuffer + y * cstride, w, f), 0, h, cmp.image.buf)
    IN  IF method = "AddMask"
        THEN MaskingComposition(s, cmp,
                 rows(LAMBDA x, old : Add32(color, ALPHA_BLEND(old, ialpha))))
        ELSE IF method = "SubtractMask"
        THEN MaskingComposition(s, cmp, rows(LAMBDA x, old : ALPHA_BLEND(old, ialpha)))
        ELSE IF method = "IntersectMask"
        THEN LET done(l) ==
                     IF l.hang THEN Hung(s.buf, l.buf) ELSE MaskingComposition(s, cmp, l.buf)
             IN  done(IntersectRows([kind |-> "solid", a |-> a], w, cmp.bbox.min.y, 0, cstride,
                                    cmp.bbox, region, cmp.image.buf))
        ELSE IF method = "DifferenceMask"
        THEN MaskingComposition(s, cmp,
                 rows(LAMBDA x, old :
                     Add32(ALPHA_BLEND(color, IALPHA32(old)), ALPHA_BLEND(old, ialpha))))
        ELSE Result(FALSE, s.buf, cmp.image.buf)

rasterMattedRect(s, cmp, region, r, g, b, a) ==
    LET w == region.max.x - region.min.x
        h == region.max.y - region.min.y
        csize == cmp.image.channelSize
        cbuffer == (region.min.y * cmp.image.stride + region.min.x) * csize
        buffer == (region.min.y * s.stride) + region.min.x
        color == Join(s, r, g, b, a)
        alpha(y, x) == MatteAlpha(s, cmp, cbuffer + y * cmp.image.stride * csize + x * csize)
    IN  IF s.channelSize = 4
        THEN Result(TRUE,
                 ForRows(LAMBDA y, buf :
                     MapRun(buf, buffer + y * s.stride, w,
                            LAMBDA x, old : INTERPOLATE(color, old, alpha(y, x))),
                     0, h, s.buf),
                 cmp.image.buf)
        ELSE IF s.channelSize = 1
        THEN Result(TRUE,
                 ForRows(LAMBDA y, buf :
                     MapRun(buf, buffer + y * s.stride, w,
                            LAMBDA x, old : <<INTERPOLATE8(a, old[1], alpha(y, x))>>),
                     0, h, s.buf),
                 cmp.image.buf)
        ELSE Result(TRUE, s.buf, cmp.image.buf)

rasterSolidRectAtRowStart(s, cbuf, region, r, g, b) ==
    LET w == region.max.x - region.min.x
        h == region.max.y - region.min.y
        buffer == region.min.y * s.stride
    IN  Result(TRUE,
            ForRows(LAMBDA y, buf :
                rasterRGBA32(buf, buffer + y * s.stride, Join(s, r, g, b, 255), 0, w),
                0, h, s.buf),
            cbuf)

rasterSolidRect(s, cbuf, region, r, g, b) ==
    LET w == region.max.x - region.min.x
        h == region.max.y - region.min.y
        buffer == region.min.y * s.stride
    IN  IF s.channelSize = 4
        THEN Result(TRUE,
                 ForRows(LAMBDA y, buf :
                     rasterRGBA32(buf, buffer + y * s.stride, Join(s, r, g, b, 255), region.min.x, w),
                     0, h, s.buf),
                 cbuf)
        ELSE IF s.channelSize = 1
        THEN Result(TRUE,
                 ForRows(LAMBDA y, buf :
                     rasterGrayscale8(buf, buffer + y * s.stride, 255, region.min.x, w),
                     0, h, s.buf),
                 cbuf)
        ELSE Result(FALSE, s.buf, cbuf)

\* fill_translucent over a rect: dst <- color + blend(dst, 255 - a)
cRasterTranslucentRect(s, cbuf, region, r, g, b, a) ==
    LET w == region.max.x - region.min.x
        h == region.max.y - region.min.y
        buffer == (region.min.y * s.stride) + region.min.x
        color == Join(s, r, g, b, a)
        ialpha == 255 - a
    IN  IF s.channelSize = 4
        THEN Result(TRUE,
                 ForRows(LAMBDA y, buf :
                     MapRun(buf, buffer + y * s.stride, w,
                            LAMBDA x, old : Add32(color, ALPHA_BLEND(old, ialpha))),
                     0, h, s.buf),
                 cbuf)
        ELSE Result(TRUE,
                 ForRows(LAMBDA y, buf :
                     MapRun(buf, buffer + y * s.stride, w,
                            LAMBDA x, old : <<(a + MULTIPLY(old[1], ialpha)) % 256>>),
                     0, h, s.buf),
                 cbuf)

rasterRect(s, cmp, region, r, g, b, a) ==
    IF compositing(cmp)
    THEN IF matting(cmp) THEN rasterMattedRect(s, cmp, region, r, g, b, a)
         ELSE rasterMaskedRect(s, cmp, region, r, g, b, a)
    ELSE IF a = 255 THEN rasterSolidRect(s, CmpBuf(cmp), region, r, g, b)
         ELSE cRasterTranslucentRect(s, CmpBuf(cmp), region, r, g, b, a)

(***************************************************************************)
(* Rle.  An rle is [null, spans, past]: spans is the span array (size =    *)
(* Len(spans)); past is what a read of the element after the last one      *)
(* yields, which the IntersectMask cursor can reach.                       *)
(***************************************************************************)
NullRle == [null |-> TRUE, spans |-> <<>>, past |-> [x |-> 0, y |-> -1, len |-> 1, coverage |-> 0]]
Span(sx, sy, sl, sc) == [x |-> sx, y |-> sy, len |-> sl, coverage |-> sc]
SpanAt(rle, i) == IF i <= Len(rle.spans) THEN rle.spans[i] ELSE rle.past
SpanSrc(color, span) == IF span.coverage = 255 THEN color ELSE ALPHA_BLEND(color, span.coverage)

RECURSIVE IntersectRle(_, _, _, _, _, _, _, _)
IntersectRle(rle, src, y, x, i, cstride, bbox, buf) ==
    IF ~(y < bbox.max.y) THEN buf
    ELSE IF ~(x < bbox.max.x)
    THEN IntersectRle(rle, src, y + 1, bbox.min.x, i, cstride, bbox, buf)
    ELSE LET span == SpanAt(rle, i)
             cmp == y * cstride
         IN  IF y = span.y /\ x = span.x /\ x + span.len <= bbox.max.x
             THEN IntersectRle(rle, src, y, x + span.len, i + 1, cstride, bbox,
                      IF src.kind = "solid"
                      THEN MapRun(buf, cmp + x, span.len,
                                  LAMBDA k, old :
                                      ALPHA_BLEND(old, ALPHA32(SpanSrc(src.color, span))))
                      ELSE IF src.kind = "fill"
                      THEN fillSpan(src.fn, buf, src.fill, cmp, span.y, span.x, span.len,
                                    "IntMask", span.coverage, <<>>)
                      ELSE MapRun(buf, cmp + x, span.len,
                                  LAMBDA k, old :
                                      LET p == src.image.buf[(span.y + src.image.oy) * src.image.stride
                                                             + (span.x + src.image.ox) + k]
                                          alpha == MULTIPLY(span.coverage, src.opacity)
                                      IN  IF alpha = 255 THEN ALPHA_BLEND(old, ALPHA32(p))
                                          ELSE ALPHA_BLEND(old, ALPHA32(ALPHA_BLEND(p, alpha)))))
             ELSE IntersectRle(rle, src, y, x + 1, i, cstride, bbox,
                               [buf EXCEPT ![cmp + x] = Zero32])

rasterMaskedRle(s, cmp, rle, r, g, b, a) ==
    IF s.channelSize # 4 THEN Result(FALSE, s.buf, cmp.image.buf)
    ELSE
    LET cstride == cmp.image.stride
        color == Join(s, r, g, b, a)
        method == cmp.method
        spans(f(_, _, _)) ==
            ForSpans(LAMBDA span, buf :
                         MapRun(buf, span.y * cstride + span.x, span.len,
                                LAMBDA x, old : f(SpanSrc(color, span), x, old)),
                     1, rle.spans, cmp.image.buf)
    IN  IF method = "AddMask"
        THEN MaskingComposition(s, cmp,
                 spans(LAMBDA src, x, old : Add32(src, ALPHA_BLEND(old, IALPHA32(src)))))
        ELSE IF method = "SubtractMask"
        THEN MaskingComposition(s, cmp,
                 spans(LAMBDA src, x, old : ALPHA_BLEND(old, IALPHA32(src))))
        ELSE IF method = "IntersectMask"
        THEN MaskingComposition(s, cmp,
                 IntersectRle(rle, [kind |-> "solid", color |-> color], cmp.bbox.min.y,
                              cmp.bbox.min.x, 1, cstride, cmp.bbox, cmp.image.buf))
        ELSE IF method = "DifferenceMask"
        THEN MaskingComposition(s, cmp,
                 spans(LAMBDA src, x, old :
                     Add32(ALPHA_BLEND(src, IALPHA32(old)), ALPHA_BLEND(old, IALPHA32(src)))))
        ELSE Result(FALSE, s.buf, cmp.image.buf)

rasterMattedRle(s, cmp, rle, r, g, b, a) ==
    LET csize == cmp.image.channelSize
        color == Join(s, r, g, b, a)
        alpha(span, x) == MatteAlpha(s, cmp, (span.y * cmp.image.stride + span.x) * csize + x * csize)
    IN  IF s.channelSize = 4
        THEN Result(TRUE,
                 ForSpans(LAMBDA span, buf :
                     MapRun(buf, span.y * s.stride + span.x, span.len,
                            LAMBDA x, old : INTERPOLATE(SpanSrc(color, span), old, alpha(span, x))),
                     1, rle.spans, s.buf),
                 cmp.image.buf)
        ELSE IF s.channelSize = 1
        THEN Result(TRUE,
                 ForSpans(LAMBDA span, buf :
                     MapRun(buf, span.y * s.stride + span.x, span.len,
                            LAMBDA x, old :
                                <<INTERPOLATE8(IF span.coverage = 255 THEN a
                                               ELSE MULTIPLY(a, span.coverage),
                                               old[1], alpha(span, x))>>),
                     1, rle.spans, s.buf),
                 cmp.image.buf)
        ELSE Result(FALSE, s.buf, cmp.image.buf)

rasterSolidRle(s, cbuf, rle, r, g, b) ==
    LET color == Join(s, r, g, b, 255)
    IN  IF s.channelSize = 4
        THEN Result(TRUE,
                 ForSpans(LAMBDA span, buf :
                     IF span.coverage = 255
                     THEN rasterRGBA32(buf, span.y * s.stride, color, span.x, span.len)
                     ELSE MapRun(buf, span.y * s.stride + span.x, span.len,
                                 LAMBDA x, old :
                                     Add32(ALPHA_BLEND(color, span.coverage),
                                           ALPHA_BLEND(old, 255 - span.coverage))),
                     1, rle.spans, s.buf),
                 cbuf)
        ELSE IF s.channelSize = 1
        THEN Result(TRUE,
                 ForSpans(LAMBDA span, buf :
                     IF span.coverage = 255
                     THEN rasterGrayscale8(buf, span.y * s.stride, 255, span.x, span.len)
                     ELSE MapRun(buf, span.y * s.stride + span.x, span.len,
                                 LAMBDA x, old : <<span.coverage>>),
                     1, rle.spans, s.buf),
                 cbuf)
        ELSE Result(TRUE, s.buf, cbuf)

\* fill_translucent over spans: src is the coverage-scaled colour,
\* dst <- src + blend(dst, 255 - alpha(src))
cRasterTranslucentRle(s, cbuf, rle, r, g, b, a) ==
    LET color == Join(s, r, g, b, a)
    IN  IF s.channelSize = 4
        THEN Result(TRUE,
                 ForSpans(LAMBDA span, buf :
                     MapRun(buf, span.y * s.stride + span.x, span.len,
                            LAMBDA x, old :
                                Add32(SpanSrc(color, span),
                                      ALPHA_BLEND(old, IALPHA32(SpanSrc(color, span))))),
                     1, rle.spans, s.buf),
                 cbuf)
        ELSE Result(TRUE,
                 ForSpans(LAMBDA span, buf :
                     MapRun(buf, span.y * s.stride + span.x, span.len,
                            LAMBDA x, old :
                                LET src == IF span.coverage = 255 THEN a
                                           ELSE MULTIPLY(a, span.coverage)
                                IN  <<(src + MULTIPLY(old[1], 255 - src)) % 256>>),
                     1, rle.spans, s.buf),
                 cbuf)

rasterRle(s, cmp, rle, r, g, b, a) ==
    IF rle.null THEN Result(FALSE, s.buf, CmpBuf(cmp))
    ELSE IF compositing(cmp)
    THEN IF matting(cmp) THEN rasterMattedRle(s, cmp, rle, r, g, b, a)
         ELSE rasterMaskedRle(s, cmp, rle, r, g, b, a)
    ELSE IF a = 255 THEN rasterSolidRle(s, CmpBuf(cmp), rle, r, g, b)
         ELSE cRasterTranslucentRle(s, CmpBuf(cmp), rle, r, g, b, a)

(***************************************************************************)
(* Image sampling.  An image is [buf, stride, w, h, ox, oy, direct,        *)
(* scaled, scale, rle]; scale is the rational num / den.  The inverse      *)
(* transform of a scaled image is [e11, e13, e22, e23] with integer        *)
(* entries, so every sample position sx = x * e11 + e13 is an integer.     *)
(***************************************************************************)
halfScale(scale) ==
    LET hs == scale.den \div (2 * scale.num)    \* static_cast<uint32_t>(0.5f / scale)
    IN  IF hs = 0 THEN 1 ELSE hs

interpUpScaler(img, w, h, sx, sy) ==
    LET rx == sx
        ry == sy
        rx2 == IF rx + 1 >= w THEN w - 1 ELSE rx + 1
        ry2 == IF ry + 1 >= h THEN h - 1 ELSE ry + 1
        dx == (sx - rx) * 255
        dy == (sy - ry) * 255
        c1 == img[rx + ry * w]
        c2 == img[rx2 + ry * w]
        c3 == img[rx2 + ry2 * w]
        c4 == img[rx + ry2 * w]
    IN  INTERPOLATE(INTERPOLATE(c3, c4, dx), INTERPOLATE(c2, c1, dx), dy)

\* rx, ry and n are uint32_t: when ry < n the first y, ry - n, wraps to a
\* value near 2^32 that is not below ry + n, and the loop over y does not
\* run; likewise the loop over x when rx < n
interpDownScaler(img, stride, w, h, rx, ry, n) ==
    LET n2 == n * n
        src == rx - n + (ry - n) * stride
        row(y, c) ==
            IF y >= h THEN c
            ELSE IF rx < n THEN c
            ELSE ForRows(LAMBDA x, cc :
                             IF x >= w THEN cc
                             ELSE LET p == img[src + (y - (ry - n)) * stride + (x - (rx - n))]
                                  IN  <<cc[1] + p[1], cc[2] + p[2], cc[3] + p[3], cc[4] + p[4]>>,
                         rx - n, rx + n, c)
        c == IF ry < n THEN <<0, 0, 0, 0>>
             ELSE ForRows(row, ry - n, ry + n, <<0, 0, 0, 0>>)
    IN  Px(((c[1] \div 4) \div n2) % 256, ((c[2] \div 4) \div n2) % 256,
           ((c[3] \div 4) \div n2) % 256, ((c[4] \div 4) \div n2) % 256)

\* the sample either scaler takes at (sx, sy): image->scale < DOWN_SCALE_TOLERANCE
\* selects the down-scaler
ScaledSample(image, sx, sy, hs) ==
    IF 2 * image.scale.num < image.scale.den
    THEN interpDownScaler(image.buf, image.stride, image.w, image.h, sx, sy, hs)
    ELSE interpUpScaler(image.buf, image.w, image.h, sx, sy)

(***************************************************************************)
(* RLE scaled RGBA image                                                   *)
(***************************************************************************)
\* the masked variants' loops are not part of this file; per the mask table
\* src is the opacity- and coverage-scaled sample, and IntersectMask clears
\* the compositor bbox outside the pixels the source covers
rasterScaledMaskedRleRGBAImage(s, cmp, image, it, region, opacity, hs) ==
    LET cstride == cmp.image.stride
        method == cmp.method
        covered(k) ==
            \E i \in 1..Len(image.rle.spans) :
                LET span == image.rle.spans[i]
                IN  /\ k >= span.y * cstride + span.x
                    /\ k < span.y * cstride + span.x + span.len
                    /\ span.y * it.e22 + it.e23 < image.h
                    /\ (k - span.y * cstride) * it.e11 + it.e13 < image.w
        src(k) ==
            LET span == image.rle.spans[CHOOSE i \in 1..Len(image.rle.spans) :
                            /\ k >= image.rle.spans[i].y * cstride + image.rle.spans[i].x
                            /\ k < image.rle.spans[i].y * cstride + image.rle.spans[i].x
                                       + image.rle.spans[i].len]
                a == MULTIPLY(span.coverage, opacity)
                c == ScaledSample(image, (k - span.y * cstride) * it.e11 + it.e13,
                                  span.y * it.e22 + it.e23, hs)
            IN  IF a = 255 THEN c ELSE ALPHA_BLEND(c, a)
        inBBox(k) ==
            \E y \in cmp.bbox.min.y..(cmp.bbox.max.y - 1) :
                k >= y * cstride + cmp.bbox.min.x /\ k < y * cstride + cmp.bbox.max.x
        update(c, old) ==
            CASE method = "AddMask" -> Add32(c, ALPHA_BLEND(old, IALPHA32(c)))
              [] method = "SubtractMask" -> ALPHA_BLEND(old, IALPHA32(c))
              [] method = "IntersectMask" -> ALPHA_BLEND(old, ALPHA32(c))
              [] method = "DifferenceMask" ->
                     Add32(ALPHA_BLEND(c, IALPHA32(old)), ALPHA_BLEND(old, IALPHA32(c)))
    IN  IF method \notin {"AddMask", "SubtractMask", "IntersectMask", "DifferenceMask"}
        THEN Result(FALSE, s.buf, cmp.image.buf)
        ELSE MaskingComposition(s, cmp,
                 [k \in DOMAIN cmp.image.buf |->
                     IF covered(k) THEN update(src(k), cmp.image.buf[k])
                     ELSE IF method = "IntersectMask" /\ inBBox(k) THEN Zero32
                     ELSE cmp.image.buf[k]])

rasterScaledMattedRleRGBAImage(s, cmp, image, it, region, opacity, hs) ==
    LET csize == cmp.image.channelSize
    IN  Result(TRUE,
            ForSpans(LAMBDA span, buf :
                LET sy == span.y * it.e22 + it.e23
                    c == (span.y * cmp.image.stride + span.x) * csize
                    a == MULTIPLY(span.coverage, opacity)
                IN  IF sy >= image.h THEN buf
                    ELSE MapRun(buf, span.y * s.stride + span.x, span.len,
                             LAMBDA i, old :
                                 LET sx == (span.x + i) * it.e11 + it.e13
                                     m == MatteAlpha(s, cmp, c + i * csize)
                                     tmp == ALPHA_BLEND(ScaledSample(image, sx, sy, hs),
                                                        IF a = 255 THEN m ELSE MULTIPLY(m, a))
                                 IN  IF sx >= image.w THEN old
                                     ELSE Add32(tmp, ALPHA_BLEND(old, IALPHA32(tmp)))),
                1, image.rle.spans, s.buf),
            cmp.image.buf)

rasterScaledRleRGBAImage(s, cbuf, image, it, region, opacity, hs) ==
    Result(TRUE,
        ForSpans(LAMBDA span, buf :
            LET sy == span.y * it.e22 + it.e23
                alpha == MULTIPLY(span.coverage, opacity)
            IN  IF sy >= image.h THEN buf
                ELSE MapRun(buf, span.y * s.stride + span.x, span.len,
                         LAMBDA i, old :
                             LET sx == (span.x + i) * it.e11 + it.e13
                                 c == ScaledSample(image, sx, sy, hs)
                                 src == IF alpha = 255 THEN c ELSE ALPHA_BLEND(c, alpha)
                             IN  IF sx >= image.w THEN old
                                 ELSE Add32(src, ALPHA_BLEND(old, IALPHA32(src)))),
            1, image.rle.spans, s.buf),
        cbuf)

\* a null transform is the identity; mathInverse fails on a transform that
\* has no inverse
scaledRleRGBAImage(s, cmp, image, transform, region, opacity) ==
    IF ~transform.null /\ ~transform.invertible THEN Result(FALSE, s.buf, CmpBuf(cmp))
    ELSE
    LET it == IF transform.null THEN [e11 |-> 1, e13 |-> 0, e22 |-> 1, e23 |-> 0]
              ELSE transform.inverse
        hs == halfScale(image.scale)
    IN  IF compositing(cmp)
        THEN \* both compositing variants run, their result is dropped, and the
             \* routine falls through to return false
             [(IF matting(cmp)
               THEN rasterScaledMattedRleRGBAImage(s, cmp, image, it, region, opacity, hs)
               ELSE rasterScaledMaskedRleRGBAImage(s, cmp, image, it, region, opacity, hs))
              EXCEPT !.ret = FALSE]
        ELSE rasterScaledRleRGBAImage(s, CmpBuf(cmp), image, it, region, opacity, hs)

(***************************************************************************)
(* RLE direct RGBA image                                                   *)
(***************************************************************************)
rasterDirectMaskedRleRGBAImage(s, cmp, image, opacity) ==
    LET ctride == cmp.image.stride
        method == cmp.method
        spans(f(_, _, _)) ==
            ForSpans(LAMBDA span, buf :
                         MapRun(buf, span.y * ctride + span.x, span.len,
                                LAMBDA x, old :
                                    f(image.buf[(span.y + image.oy) * image.stride
                                                + (span.x + image.ox) + x],
                                      MULTIPLY(span.coverage, opacity), old)),
                     1, image.rle.spans, cmp.image.buf)
    IN  IF method = "AddMask"
        THEN MaskingComposition(s, cmp,
                 spans(LAMBDA src, alpha, old :
                     IF alpha = 255 THEN Add32(src, ALPHA_BLEND(old, IALPHA32(src)))
                     ELSE INTERPOLATE(src, old, alpha)))
        ELSE IF method = "SubtractMask"
        THEN MaskingComposition(s, cmp,
                 spans(LAMBDA src, alpha, old :
                     IF alpha = 255 THEN ALPHA_BLEND(old, IALPHA32(src))
                     ELSE ALPHA_BLEND(old, IALPHA32(ALPHA_BLEND(src, alpha)))))
        ELSE IF method = "IntersectMask"
        THEN MaskingComposition(s, cmp,
                 IntersectRle(image.rle, [kind |-> "image", image |-> image, opacity |-> opacity],
                              cmp.bbox.min.y, cmp.bbox.min.x, 1, ctride, cmp.bbox,
                              cmp.image.buf))
        ELSE IF method = "DifferenceMask"
        THEN MaskingComposition(s, cmp,
                 spans(LAMBDA src, alpha, old :
                     LET t == IF alpha = 255 THEN src ELSE ALPHA_BLEND(src, alpha)
                     IN  Add32(ALPHA_BLEND(t, IALPHA32(old)), ALPHA_BLEND(old, IALPHA32(t)))))
        ELSE Result(FALSE, s.buf, cmp.image.buf)

rasterDirectMattedRleRGBAImage(s, cmp, image, opacity) ==
    LET csize == cmp.image.channelSize
    IN  Result(TRUE,
            ForSpans(LAMBDA span, buf :
                LET c == (span.y * cmp.image.stride + span.x) * csize
                    img == (span.y + image.oy) * image.stride + (span.x + image.ox)
                    a == MULTIPLY(span.coverage, opacity)
                IN  MapRun(buf, span.y * s.stride + span.x, span.len,
                        LAMBDA x, old :
                            LET m == MatteAlpha(s, cmp, c + x * csize)
                                tmp == ALPHA_BLEND(image.buf[img + x],
                                                   IF a = 255 THEN m ELSE MULTIPLY(a, m))
                            IN  Add32(tmp, ALPHA_BLEND(old, IALPHA32(tmp)))),
                1, image.rle.spans, s.buf),
            cmp.image.buf)

\* with alpha = 255 the span's first pixel alone is written
rasterDirectRleRGBAImage(s, cbuf, image, opacity) ==
    Result(TRUE,
        ForSpans(LAMBDA span, buf :
            LET img == (span.y + image.oy) * image.stride + (span.x + image.ox)
                alpha == MULTIPLY(span.coverage, opacity)
            IN  IF alpha = 255
                THEN MapRun(buf, span.y * s.stride + span.x, 1,
                         LAMBDA x, old :
                             Add32(image.buf[img], ALPHA_BLEND(old, IALPHA32(image.buf[img]))))
                ELSE MapRun(buf, span.y * s.stride + span.x, span.len,
                         LAMBDA x, old :
                             LET src == ALPHA_BLEND(image.buf[img + x], alpha)
                             IN  Add32(src, ALPHA_BLEND(old, IALPHA32(src)))),
            1, image.rle.spans, s.buf),
        cbuf)

directRleRGBAImage(s, cmp, image, opacity) ==
    IF compositing(cmp)
    THEN IF matting(cmp) THEN rasterDirectMattedRleRGBAImage(s, cmp, image, opacity)
         ELSE rasterDirectMaskedRleRGBAImage(s, cmp, image, opacity)
    ELSE rasterDirectRleRGBAImage(s, CmpBuf(cmp), image, opacity)

(***************************************************************************)
(* Scaled RGBA image                                                       *)
(***************************************************************************)
\* the masked loops are not part of this file; per the mask table src is
\* the opacity-scaled sample, and IntersectMask clears the compositor bbox
\* outside the pixels the source covers
rasterScaledMaskedRGBAImage(s, cmp, image, it, region, opacity, hs) ==
    LET cstride == cmp.image.stride
        method == cmp.method
        xOf(k) == k % cstride
        yOf(k) == k \div cstride
        covered(k) ==
            /\ xOf(k) >= region.min.x /\ xOf(k) < region.max.x
            /\ yOf(k) >= region.min.y /\ yOf(k) < region.max.y
            /\ yOf(k) * it.e22 + it.e23 < image.h
            /\ xOf(k) * it.e11 + it.e13 < image.w
        src(k) ==
            LET c == ScaledSample(image, xOf(k) * it.e11 + it.e13, yOf(k) * it.e22 + it.e23, hs)
            IN  IF opacity = 255 THEN c ELSE ALPHA_BLEND(c, opacity)
        inBBox(k) ==
            /\ xOf(k) >= cmp.bbox.min.x /\ xOf(k) < cmp.bbox.max.x
            /\ yOf(k) >= cmp.bbox.min.y /\ yOf(k) < cmp.bbox.max.y
        update(c, old) ==
            CASE method = "AddMask" -> Add32(c, ALPHA_BLEND(old, IALPHA32(c)))
              [] method = "SubtractMask" -> ALPHA_BLEND(old, IALPHA32(c))
              [] method = "IntersectMask" -> ALPHA_BLEND(old, ALPHA32(c))
              [] method = "DifferenceMask" ->
                     Add32(ALPHA_BLEND(c, IALPHA32(old)), ALPHA_BLEND(old, IALPHA32(c)))
    IN  IF method \notin {"AddMask", "SubtractMask", "IntersectMask", "DifferenceMask"}
        THEN Result(FALSE, s.buf, cmp.image.buf)
        ELSE MaskingComposition(s, cmp,
                 [k \in DOMAIN cmp.image.buf |->
                     IF covered(k) THEN update(src(k), cmp.image.buf[k])
                     ELSE IF method = "IntersectMask" /\ inBBox(k) THEN Zero32
                     ELSE cmp.image.buf[k]])

\* a row whose sy is outside the image is skipped by `continue`, before
\* dbuffer and cbuffer advance: acc.n counts the rows that advanced them
rasterScaledMattedRGBAImage(s, cmp, image, it, region, opacity, hs) ==
    LET dbuffer == region.min.y * s.stride + region.min.x
        csize == cmp.image.channelSize
        cbuffer == (region.min.y * cmp.image.stride + region.min.x) * csize
        w == region.max.x - region.min.x
        row(y, acc) ==
            LET sy == y * it.e22 + it.e23
                dst == dbuffer + acc.n * s.stride
                c == cbuffer + acc.n * cmp.image.stride * csize
            IN  IF sy >= image.h THEN acc
                ELSE [n |-> acc.n + 1,
                      buf |-> MapRun(acc.buf, dst, w,
                                  LAMBDA i, old :
                                      LET sx == (region.min.x + i) * it.e11 + it.e13
                                          m == MatteAlpha(s, cmp, c + i * csize)
                                          temp == ALPHA_BLEND(ScaledSample(image, sx, sy, hs),
                                                      IF opacity = 255 THEN m
                                                      ELSE MULTIPLY(opacity, m))
                                      IN  IF sx >= image.w THEN old
                                          ELSE Add32(temp, ALPHA_BLEND(old, IALPHA32(temp))))]
    IN  Result(TRUE, ForRows(row, region.min.y, region.max.y, [n |-> 0, buf |-> s.buf]).buf,
               cmp.image.buf)

rasterScaledRGBAImage(s, cbuf, image, it, region, opacity, hs) ==
    LET dbuffer == region.min.y * s.stride + region.min.x
        w == region.max.x - region.min.x
        row(y, buf) ==
            LET sy == y * it.e22 + it.e23
                dst == dbuffer + (y - region.min.y) * s.stride
            IN  IF sy >= image.h THEN buf
                ELSE MapRun(buf, dst, w,
                         LAMBDA i, old :
                             LET sx == (region.min.x + i) * it.e11 + it.e13
                                 c == ScaledSample(image, sx, sy, hs)
                                 src == IF opacity = 255 THEN c ELSE ALPHA_BLEND(c, opacity)
                             IN  IF sx >= image.w THEN old
                                 ELSE Add32(src, ALPHA_BLEND(old, IALPHA32(src))))
    IN  Result(TRUE, ForRows(row, region.min.y, region.max.y, s.buf), cbuf)

scaledRGBAImage(s, cmp, image, transform, region, opacity) ==
    IF ~transform.null /\ ~transform.invertible THEN Result(FALSE, s.buf, CmpBuf(cmp))
    ELSE
    LET it == IF transform.null THEN [e11 |-> 1, e13 |-> 0, e22 |-> 1, e23 |-> 0]
              ELSE transform.inverse
        hs == halfScale(image.scale)
    IN  IF compositing(cmp)
        THEN IF matting(cmp)
             THEN rasterScaledMattedRGBAImage(s, cmp, image, it, region, opacity, hs)
             ELSE rasterScaledMaskedRGBAImage(s, cmp, image, it, region, opacity, hs)
        ELSE rasterScaledRGBAImage(s, CmpBuf(cmp), image, it, region, opacity, hs)

(***************************************************************************)
(* Direct RGBA image                                                       *)
(***************************************************************************)
rasterDirectMaskedRGBAImage(s, cmp, image, region, opacity) ==
    LET h == region.max.y - region.min.y
        w == region.max.x - region.min.x
        cstride == cmp.image.stride
        method == cmp.method
        cbuffer == region.min.y * cstride + region.min.x
        sbuffer == (region.min.y + image.oy) * image.stride + (region.min.x + image.ox)
        rows(f(_, _)) ==
            ForRows(LAMBDA y, buf :
                        MapRun(buf, cbuffer + y * cstride, w,
                               LAMBDA x, old : f(image.buf[sbuffer + y * image.stride + x], old)),
                    0, h, cmp.image.buf)
    IN  IF method = "AddMask"
        THEN MaskingComposition(s, cmp,
                 rows(LAMBDA src, old :
                     IF opacity = 255 THEN Add32(src, ALPHA_BLEND(old, IALPHA32(src)))
                     ELSE INTERPOLATE(src, old, opacity)))
        ELSE IF method = "SubtractMask"
        THEN MaskingComposition(s, cmp,
                 rows(LAMBDA src, old :
                     IF opacity = 255 THEN ALPHA_BLEND(old, IALPHA32(src))
                     ELSE ALPHA_BLEND(old, IALPHA32(ALPHA_BLEND(src, opacity)))))
        ELSE IF method = "IntersectMask"
        THEN LET done(l) ==
                     IF l.hang THEN Hung(s.buf, l.buf) ELSE MaskingComposition(s, cmp, l.buf)
             IN  done(IntersectRows([kind |-> "image", image |-> image, opacity |-> opacity],
                                    cmp.bbox.max.x - cmp.bbox.min.x, cmp.bbox.min.y, 0, cstride,
                                    cmp.bbox, region, cmp.image.buf))
        ELSE IF method = "DifferenceMask"
        THEN MaskingComposition(s, cmp,
                 rows(LAMBDA src, old :
                     LET t == IF opacity = 255 THEN src ELSE ALPHA_BLEND(src, opacity)
                     IN  Add32(ALPHA_BLEND(t, IALPHA32(old)), ALPHA_BLEND(old, IALPHA32(t)))))
        ELSE Result(FALSE, s.buf, cmp.image.buf)

rasterDirectMattedRGBAImage(s, cmp, image, region, opacity) ==
    LET buffer == (region.min.y * s.stride) + region.min.x
        h == region.max.y - region.min.y
        w == region.max.x - region.min.x
        csize == cmp.image.channelSize
        sbuffer == (region.min.y + image.oy) * image.stride + (region.min.x + image.ox)
        cbuffer == (region.min.y * cmp.image.stride + region.min.x) * csize
    IN  Result(TRUE,
            ForRows(LAMBDA y, buf :
                MapRun(buf, buffer + y * s.stride, w,
                    LAMBDA x, old :
                        LET m == MatteAlpha(s, cmp, cbuffer + y * cmp.image.stride * csize
                                                    + x * csize)
                            tmp == ALPHA_BLEND(image.buf[sbuffer + y * image.stride + x],
                                               IF opacity = 255 THEN m ELSE MULTIPLY(opacity, m))
                        IN  Add32(tmp, ALPHA_BLEND(old, IALPHA32(tmp)))),
                0, h, s.buf),
            cmp.image.buf)

directRGBAImage(s, cmp, image, region, opacity) ==
    IF compositing(cmp)
    THEN IF matting(cmp) THEN rasterDirectMattedRGBAImage(s, cmp, image, region, opacity)
         ELSE rasterDirectMaskedRGBAImage(s, cmp, image, region, opacity)
    ELSE LET d == rasterDirectRGBAImage(s, image, region, opacity)
         IN  Result(d.ret, d.dst, CmpBuf(cmp))

\* an image that is neither direct nor scaled goes to the texture mapper,
\* which is outside this model: the images tried are direct or scaled
rasterRGBAImage(s, cmp, image, transform, region, opacity) ==
    CASE ~image.rle.null /\ image.direct -> directRleRGBAImage(s, cmp, image, opacity)
      [] ~image.rle.null /\ ~image.direct /\ image.scaled ->
             scaledRleRGBAImage(s, cmp, image, transform, region, opacity)
      [] image.rle.null /\ image.direct -> directRGBAImage(s, cmp, image, region, opacity)
      [] image.rle.null /\ ~image.direct /\ image.scaled ->
             scaledRGBAImage(s, cmp, image, transform, region, opacity)

(***************************************************************************)
(* Rect gradient.  The linear and the radial routine of each variant are   *)
(* one operator; id says which of the two runs, and every place where the  *)
(* two differ is written out.                                              *)
(***************************************************************************)
rasterGradientMaskedRect(s, cmp, region, fill, id) ==
    \* both routines test fill->linear.len
    IF fill.linear.len < FltEpsilon THEN Result(FALSE, s.buf, cmp.image.buf)
    ELSE
    LET h == region.max.y - region.min.y
        w == region.max.x - region.min.x
        cstride == cmp.image.stride
        cbuffer == region.min.y * cstride + region.min.x
        method == cmp.method
        fn == IF id = "linear" THEN "fillLinear" ELSE "fillRadial"
        rows(op) ==
            ForRows(LAMBDA y, buf :
                        fillSpan(fn, buf, fill, cbuffer + y * s.stride, region.min.y + y,
                                 region.min.x, w, op, 255, <<>>),
                    0, h, cmp.image.buf)
    IN  IF method = "AddMask" THEN MaskingComposition(s, cmp, rows("AddMask"))
        ELSE IF method = "SubtractMask" THEN MaskingComposition(s, cmp, rows("SubMask"))
        ELSE IF method = "IntersectMask"
        THEN LET done(l) ==
                     IF l.hang THEN Hung(s.buf, l.buf) ELSE MaskingComposition(s, cmp, l.buf)
             IN  done(IntersectRows([kind |-> "fill", fn |-> fn, fill |-> fill],
                                    \* rows outside the region: the linear routine clears
                                    \* the bbox width, the radial one the region width
                                    IF id = "linear" THEN cmp.bbox.max.x - cmp.bbox.min.x ELSE w,
                                    cmp.bbox.min.y, 0, cstride, cmp.bbox, region, cmp.image.buf))
        ELSE IF method = "DifferenceMask" THEN MaskingComposition(s, cmp, rows("DifMask"))
        ELSE Result(FALSE, s.buf, cmp.image.buf)

rasterGradientMattedRect(s, cmp, region, fill, id) ==
    IF (IF id = "linear" THEN fill.linear.len ELSE fill.radial.a) < FltEpsilon
    THEN Result(FALSE, s.buf, cmp.image.buf)
    ELSE
    LET buffer == (region.min.y * s.stride) + region.min.x
        h == region.max.y - region.min.y
        w == region.max.x - region.min.x
        csize == cmp.image.channelSize
        cbuffer == (region.min.y * cmp.image.stride + region.min.x) * csize
        fn == IF id = "linear" THEN "fillLinear" ELSE "fillRadial"
    IN  Result(TRUE,
            ForRows(LAMBDA y, buf :
                        fillSpan(fn, buf, fill, buffer + y * s.stride, region.min.y + y,
                                 region.min.x, w, "Matte", 255,
                                 [i \in 0..(w - 1) |->
                                     MatteAlpha(s, cmp, cbuffer + y * s.stride * csize + i * csize)]),
                    0, h, s.buf),
            cmp.image.buf)

rasterTranslucentGradientRect(s, cbuf, region, fill, id) ==
    IF (IF id = "linear" THEN fill.linear.len ELSE fill.radial.a) < FltEpsilon
    THEN Result(FALSE, s.buf, cbuf)
    ELSE
    LET buffer == (region.min.y * s.stride) + region.min.x
        h == region.max.y - region.min.y
        w == region.max.x - region.min.x
        fn == IF id = "linear" THEN "fillLinear" ELSE "fillRadial"
    IN  Result(TRUE,
            ForRows(LAMBDA y, buf :
                        fillSpan(fn, buf, fill, buffer + y * s.stride, region.min.y + y,
                                 region.min.x, w, "Blend", 255, <<>>),
                    0, h, s.buf),
            cbuf)

rasterSolidGradientRect(s, cbuf, region, fill, id) ==
    IF (IF id = "linear" THEN fill.linear.len ELSE fill.radial.a) < FltEpsilon
    THEN Result(FALSE, s.buf, cbuf)
    ELSE
    LET buffer == (region.min.y * s.stride) + region.min.x
        h == region.max.y - region.min.y
        w == region.max.x - region.min.x
        fn == IF id = "linear" THEN "fillLinear" ELSE "fillRadial"
    IN  Result(TRUE,
            ForRows(LAMBDA y, buf :
                        fillSpan(fn, buf, fill, buffer + y * s.stride, region.min.y + y,
                                 region.min.x, w, "Write", 255, <<>>),
                    0, h, s.buf),
            cbuf)

rasterGradientRect(s, cmp, region, fill, id) ==
    IF compositing(cmp)
    THEN IF matting(cmp) THEN rasterGradientMattedRect(s, cmp, region, fill, id)
         ELSE rasterGradientMaskedRect(s, cmp, region, fill, id)
    ELSE IF fill.translucent
    THEN rasterTranslucentGradientRect(s, CmpBuf(cmp), region, fill, id)
    ELSE LET r == rasterSolidGradientRect(s, CmpBuf(cmp), region, fill, id)
         IN  \* the linear routine calls the solid fill without returning its
             \* result and falls through to return false
             IF id = "linear" THEN [r EXCEPT !.ret = FALSE] ELSE r

(***************************************************************************)
(* Rle gradient                                                            *)
(***************************************************************************)
rasterGradientMaskedRle(s, cmp, rle, fill, id) ==
    \* both routines test fill->linear.len and both call fillLinear
    IF fill.linear.len < FltEpsilon THEN Result(FALSE, s.buf, cmp.image.buf)
    ELSE
    LET cstride == cmp.image.stride
        method == cmp.method
        spans(op) ==
            ForSpans(LAMBDA span, buf :
                         fillSpan("fillLinear", buf, fill, span.y * cstride + span.x, span.y,
                                  span.x, span.len, op, span.coverage, <<>>),
                     1, rle.spans, cmp.image.buf)
    IN  IF method = "AddMask" THEN MaskingComposition(s, cmp, spans("AddMask"))
        ELSE IF method = "SubtractMask" THEN MaskingComposition(s, cmp, spans("SubMask"))
        ELSE IF method = "IntersectMask"
        THEN MaskingComposition(s, cmp,
                 IntersectRle(rle, [kind |-> "fill", fn |-> "fillLinear", fill |-> fill],
                              cmp.bbox.min.y, cmp.bbox.min.x, 1, cstride, cmp.bbox,
                              cmp.image.buf))
        ELSE IF method = "DifferenceMask" THEN MaskingComposition(s, cmp, spans("DifMask"))
        ELSE Result(FALSE, s.buf, cmp.image.buf)

rasterGradientMattedRle(s, cmp, rle, fill, id) ==
    IF (IF id = "linear" THEN fill.linear.len ELSE fill.radial.a) < FltEpsilon
    THEN Result(FALSE, s.buf, cmp.image.buf)
    ELSE
    LET csize == cmp.image.channelSize
        fn == IF id = "linear" THEN "fillLinear" ELSE "fillRadial"
    IN  Result(TRUE,
            ForSpans(LAMBDA span, buf :
                         fillSpan(fn, buf, fill, span.y * s.stride + span.x, span.y, span.x,
                                  span.len, "Matte", span.coverage,
                                  [i \in 0..(span.len - 1) |->
                                      MatteAlpha(s, cmp,
                                          (span.y * cmp.image.stride + span.x) * csize + i * csize)]),
                     1, rle.spans, s.buf),
            cmp.image.buf)

rasterTranslucentGradientRle(s, cbuf, rle, fill, id) ==
    IF (IF id = "linear" THEN fill.linear.len ELSE fill.radial.a) < FltEpsilon
    THEN Result(FALSE, s.buf, cbuf)
    ELSE
    LET fn == IF id = "linear" THEN "fillLinear" ELSE "fillRadial"
    IN  Result(TRUE,
            ForSpans(LAMBDA span, buf :
                         fillSpan(fn, buf, fill, span.y * s.stride + span.x, span.y, span.x,
                                  span.len,
                                  IF span.coverage = 255 THEN "Blend" ELSE "AlphaBlend",
                                  span.coverage, <<>>),
                     1, rle.spans, s.buf),
            cbuf)

rasterSolidGradientRle(s, cbuf, rle, fill, id) ==
    IF (IF id = "linear" THEN fill.linear.len ELSE fill.radial.a) < FltEpsilon
    THEN Result(FALSE, s.buf, cbuf)
    ELSE
    LET fn == IF id = "linear" THEN "fillLinear" ELSE "fillRadial"
    IN  Result(TRUE,
            ForSpans(LAMBDA span, buf :
                         fillSpan(fn, buf, fill, span.y * s.stride + span.x, span.y, span.x,
                                  span.len,
                                  IF span.coverage = 255 THEN "Write" ELSE "Interpolate",
                                  span.coverage, <<>>),
                     1, rle.spans, s.buf),
            cbuf)

rasterGradientRle(s, cmp, rle, fill, id) ==
    IF rle.null THEN Result(FALSE, s.buf, CmpBuf(cmp))
    ELSE IF compositing(cmp)
    THEN IF matting(cmp) THEN rasterGradientMattedRle(s, cmp, rle, fill, id)
         ELSE rasterGradientMaskedRle(s, cmp, rle, fill, id)
    ELSE IF fill.translucent
    THEN LET r == rasterTranslucentGradientRle(s, CmpBuf(cmp), rle, fill, id)
         IN  \* the radial routine calls the translucent fill without returning
             \* its result and falls through to return false
             IF id = "radial" THEN [r EXCEPT !.ret = FALSE] ELSE r
    ELSE rasterSolidGradientRle(s, CmpBuf(cmp), rle, fill, id)


(***************************************************************************)
(* External class.  A shape is [fastTrack, bbox, rle, strokeRle].          *)
(***************************************************************************)
rasterShape(s, cmp, shape, r, g, b, a) ==
    LET m(c) == IF a < 255 THEN MULTIPLY(c, a) ELSE c
    IN  IF shape.fastTrack
        THEN rasterRect(s, cmp, shape.bbox, m(r), m(g), m(b), a)
        ELSE rasterRle(s, cmp, shape.rle, m(r), m(g), m(b), a)

rasterStroke(s, cmp, shape, r, g, b, a) ==
    LET m(c) == IF a < 255 THEN MULTIPLY(c, a) ELSE c
    IN  rasterRle(s, cmp, shape.strokeRle, m(r), m(g), m(b), a)

\* shape.fill is the shape's gradient; it may be null
rasterGradientShape(s, cmp, shape, id) ==
    IF s.channelSize = 1 THEN Result(FALSE, s.buf, CmpBuf(cmp))
    ELSE IF shape.fill.null THEN Result(FALSE, s.buf, CmpBuf(cmp))
    ELSE IF shape.fastTrack /\ id \in {"linear", "radial"}
    THEN rasterGradientRect(s, cmp, shape.bbox, shape.fill, id)
    ELSE IF ~shape.fastTrack /\ id \in {"linear", "radial"}
    THEN rasterGradientRle(s, cmp, shape.rle, shape.fill, id)
    ELSE Result(FALSE, s.buf, CmpBuf(cmp))

\* shape.stroke may be null, and so may its fill and the stroke's rle
rasterGradientStroke(s, cmp, shape, id) ==
    IF s.channelSize = 1 THEN Result(FALSE, s.buf, CmpBuf(cmp))
    ELSE IF shape.stroke.null \/ shape.stroke.fill.null \/ shape.strokeRle.null
    THEN Result(FALSE, s.buf, CmpBuf(cmp))
    ELSE IF id \in {"linear", "radial"}
    THEN rasterGradientRle(s, cmp, shape.strokeRle, shape.stroke.fill, id)
    ELSE Result(FALSE, s.buf, CmpBuf(cmp))

\* the calls tried pass no mesh
rasterImage(s, cmp, image, transform, bbox, opacity) ==
    IF s.channelSize = 1 THEN Result(FALSE, s.buf, CmpBuf(cmp))
    ELSE IF bbox.max.x < 0 \/ bbox.max.y < 0 \/ bbox.min.x >= s.w \/ bbox.min.y >= s.h
    THEN Result(FALSE, s.buf, CmpBuf(cmp))
    ELSE rasterRGBAImage(s, cmp, image, transform, bbox, opacity)

(***************************************************************************)
(* The surfaces, compositors, shapes and colours the calls are tried on.   *)
(***************************************************************************)
Stride == SurfW + StridePad
Patterns == {"zero", "beef", "ramp"}
\* buffer contents: cleared, opaque black (0xFF000000), 0xDEADBEEF everywhere,
\* or different at every offset
PatternBuf(p, csz) ==
    [k \in 0..(Stride * SurfH - 1) |->
        IF csz = 4
        THEN (CASE p = "zero" -> Zero32
                [] p = "black" -> Px(255, 0, 0, 0)
                [] p = "beef" -> Px(222, 173, 190, 239)
                [] OTHER -> Px((85 * k) % 256, (40 * k) % 256, (17 * k + 3) % 256,
                               (200 - 9 * k) % 256))
        ELSE (CASE p = "zero" -> <<0>> [] p = "beef" -> <<239>> [] OTHER -> <<(85 * k) % 256>>)]

MakeSurface(cs, csz, p) ==
    rasterCompositor([buf |-> PatternBuf(p, csz), stride |-> Stride, w |-> SurfW, h |-> SurfH,
                      cs |-> cs, channelSize |-> csz, blender |-> NoBlender]).surface

Surfaces ==
    {MakeSurface(cs, 4, p) : cs \in {"ABGR8888", "ARGB8888"}, p \in {"zero", "ramp"}}
        \cup {MakeSurface("ABGR8888", 4, "black"), MakeSurface("ABGR8888", 1, "ramp")}

MakeCompositor(m, csz, p, bb) ==
    [present |-> TRUE, method |-> m, bbox |-> bb,
     image |-> [buf |-> PatternBuf(p, csz), stride |-> Stride, w |-> SurfW, h |-> SurfH,
                channelSize |-> csz, ox |-> 0, oy |-> 0]]

FullBBox == BBox(0, 0, SurfW, SurfH)

Compositors ==
    {NoCompositor}
        \cup {MakeCompositor(m, 4, p, bb) :
                 m \in Methods \ {"None"}, p \in Patterns, bb \in {FullBBox, BBox(1, 0, SurfW, SurfH)}}
        \cup {MakeCompositor(m, 1, "ramp", FullBBox) : m \in {"AlphaMask", "InvAlphaMask"}}
        \cup {MakeCompositor("None", 4, "ramp", FullBBox)}

Regions ==
    {BBox(x0, y0, x1, y1) : x0 \in 0..SurfW, y0 \in 0..SurfH, x1 \in 0..SurfW, y1 \in 0..SurfH}
Rles ==
    LET rle(spans, past) == [null |-> FALSE, spans |-> spans, past |-> past]
        none == Span(0, -1, 1, 0)
    IN  {NullRle,
         rle(<<>>, none),
         rle(<<Span(0, 0, SurfW, 255)>>, none),
         rle(<<Span(1, 0, SurfW - 1, 128), Span(0, SurfH - 1, SurfW, 255)>>, none),
         rle(<<Span(0, SurfH - 1, 1, 0)>>, none),
         rle(<<Span(1, 0, 1, 255)>>, Span(SurfW - 1, SurfH - 1, 1, 255))}
Shapes ==
    {[fastTrack |-> TRUE, bbox |-> rg, rle |-> NullRle, strokeRle |-> NullRle] :
         rg \in {q \in Regions : q.min.x <= q.max.x /\ q.min.y <= q.max.y}}
      \cup {[fastTrack |-> FALSE, bbox |-> FullBBox, rle |-> rl, strokeRle |-> rl] : rl \in Rles}
Colors == {<<255, 0, 0, 255>>, <<255, 255, 255, 255>>, <<200, 100, 50, 128>>, <<255, 255, 255, 0>>}
NoFill == [null |-> TRUE]
Fills ==
    {[null |-> FALSE, linear |-> [len |-> l], radial |-> [a |-> ra], translucent |-> tr,
      ramp |-> IF tr THEN <<Px(128, 0, 0, 128), Px(64, 0, 64, 0), Px(0, 0, 0, 0)>>
               ELSE <<Px(255, 0, 0, 255), Px(255, 0, 255, 0), Px(255, 255, 0, 0)>>] :
         l \in {0, 2 * FltEpsilon}, ra \in {0, 2 * FltEpsilon}, tr \in BOOLEAN}
GradientShapes ==
    {sh \in Shapes :
        sh.fastTrack =>
            sh.bbox \in {FullBBox, BBox(1, 0, SurfW, 1), BBox(0, SurfH - 1, 1, SurfH),
                         BBox(1, 0, 1, SurfH)}}
ClassIds == {"linear", "radial", "undefined"}

\* an image the size of the surface (k = 1) or k times as large; a direct
\* image shares the surface's stride, a scaled one is packed
MakeImage(k, uniform, direct, rl) ==
    LET w == SurfW * k
        h == SurfH * k
        stride == IF direct THEN Stride ELSE w
    IN  [buf |-> [i \in 0..(stride * h - 1) |->
                     IF uniform THEN Px(128, 128, 128, 128)
                     ELSE Px((255 - 40 * i) % 256, (30 * i) % 256, (7 * i + 1) % 256,
                             (90 + 11 * i) % 256)],
         stride |-> stride, w |-> w, h |-> h, ox |-> 0, oy |-> 0,
         direct |-> direct, scaled |-> ~direct, scale |-> [num |-> 1, den |-> k], rle |-> rl]
Images ==
    {MakeImage(1, FALSE, TRUE, rl) : rl \in Rles}
        \cup {MakeImage(1, FALSE, FALSE, rl) : rl \in Rles}
        \cup {MakeImage(ImgScale, TRUE, FALSE, rl) : rl \in Rles}
\* no transform, a transform without an inverse, the scaling by image.scale,
\* whose inverse multiplies by scale.den, or that scaling mirrored about the
\* line y = image.h / scale.den, whose inverse maps row y to h - y * scale.den
Transforms(image) ==
    {[null |-> TRUE], [null |-> FALSE, invertible |-> FALSE],
     [null |-> FALSE, invertible |-> TRUE,
      inverse |-> [e11 |-> image.scale.den, e13 |-> 0, e22 |-> image.scale.den, e23 |-> 0]],
     [null |-> FALSE, invertible |-> TRUE,
      inverse |-> [e11 |-> image.scale.den, e13 |-> 0, e22 |-> -image.scale.den,
                   e23 |-> image.h]]}
ImageRegions ==
    {FullBBox, BBox(1, 0, SurfW, 1), BBox(1, 0, 1, SurfH), BBox(0, SurfH - 1, SurfW, SurfH - 1),
     BBox(SurfW, 0, SurfW + 1, 1), BBox(-1, SurfH - 1, 0, SurfH)}
Opacities == {255, 128}

(***************************************************************************)
(* Specification Spec: one raster call on one surface.                     *)
(***************************************************************************)
Snapshot(s, cmp) == [dst |-> s.buf, cmp |-> CmpBuf(cmp)]
Returned(res, c) ==
    /\ surface' = [surface EXCEPT !.buf = res.dst]
    /\ compositor' = IF compositor.present
                     THEN [compositor EXCEPT !.image.buf = res.cmp]
                     ELSE compositor
    /\ ret' = res.ret
    /\ pc' = IF res.hang THEN "hung" ELSE "done"
    /\ call' = c
    /\ before' = Snapshot(surface, compositor)

Init ==
    /\ surface \in Surfaces
    /\ compositor \in Compositors
    /\ pc = "idle"
    /\ call = [op |-> "none"]
    /\ ret = FALSE
    /\ before = Snapshot(surface, compositor)

RasterShape ==
    /\ pc = "idle"
    /\ \E shape \in Shapes, c \in Colors :
           Returned(rasterShape(surface, compositor, shape, c[1], c[2], c[3], c[4]),
                    [op |-> "rasterShape", shape |-> shape, color |-> c])

RasterStroke ==
    /\ pc = "idle"
    /\ \E shape \in Shapes, c \in Colors :
           /\ ~shape.fastTrack
           /\ Returned(rasterStroke(surface, compositor, shape, c[1], c[2], c[3], c[4]),
                       [op |-> "rasterStroke", shape |-> shape, color |-> c])

RasterGradientShape ==
    /\ pc = "idle"
    /\ \E shape \in GradientShapes, fill \in Fills \cup {NoFill}, id \in ClassIds :
           Returned(rasterGradientShape(surface, compositor, shape @@ [fill |-> fill], id),
                    [op |-> "rasterGradientShape", shape |-> shape, fill |-> fill, id |-> id])

RasterGradientStroke ==
    /\ pc = "idle"
    /\ \E shape \in GradientShapes, fill \in Fills \cup {NoFill}, id \in ClassIds,
          stroke \in BOOLEAN :
           /\ ~shape.fastTrack
           /\ ~stroke => fill = NoFill
           /\ Returned(rasterGradientStroke(surface, compositor,
                           shape @@ [stroke |-> IF stroke THEN [null |-> FALSE, fill |-> fill]
                                                ELSE [null |-> TRUE]], id),
                       [op |-> "rasterGradientStroke", shape |-> shape, fill |-> fill,
                        id |-> id, stroke |-> stroke])

RasterImage ==
    /\ pc = "idle"
    /\ \E image \in Images, bbox \in ImageRegions, opacity \in Opacities :
           \E transform \in Transforms(image) :
               \* the scalers cast a negative coordinate to uint32_t: a bbox left
               \* of the surface is tried with direct images
               /\ bbox.min.x < 0 => image.direct
               \* the mirrored transform is tried on scaled images without rle
               /\ (~transform.null /\ transform.invertible /\ transform.inverse.e22 < 0)
                      => (image.rle.null /\ ~image.direct)
               /\ Returned(rasterImage(surface, compositor, image, transform, bbox, opacity),
                        [op |-> "rasterImage", image |-> image, transform |-> transform,
                         bbox |-> bbox, opacity |-> opacity])

Next ==
    \/ RasterShape
    \/ RasterStroke
    \/ RasterGradientShape
    \/ RasterGradientStroke
    \/ RasterImage

Spec == Init /\ [][Next]_vars

(***************************************************************************)
(* Properties                                                              *)
(***************************************************************************)
Cleared(buf) == \A k \in DOMAIN buf : buf[k] = Zero32
InRegion(rg, x, y) == rg.min.x <= x /\ x < rg.max.x /\ rg.min.y <= y /\ y < rg.max.y
Opaque32(cs, c) ==
    IF cs \in {"ABGR8888", "ABGR8888S"} THEN <<255, c[3], c[2], c[1]>>
    ELSE <<255, c[1], c[2], c[3]>>
SolidRectCall ==
    /\ pc = "done"
    /\ call.op = "rasterShape"
    /\ call.shape.fastTrack
    /\ call.color[4] = 255
    /\ ~compositor.present
    /\ surface.channelSize = 4
    /\ Cleared(before.dst)

\* C1: rasterShape of an axis-aligned rect with an opaque colour (r,g,b,255) on
\* a zero-cleared colour surface without compositing returns true, leaves every
\* pixel inside the rect equal to the colour joined in the surface's byte order
\* with alpha 255, and leaves every pixel outside the rect 0.
C1_SolidRectFill ==
    SolidRectCall =>
        /\ ret
        /\ \A x \in 0..(surface.stride - 1), y \in 0..(surface.h - 1) :
               surface.buf[y * surface.stride + x] =
                   IF InRegion(call.shape.bbox, x, y)
                   THEN Opaque32(surface.cs, call.color)
                   ELSE Zero32

C1_Witness ==
    /\ SolidRectCall
    /\ surface.cs = "ABGR8888"
    /\ call.color = <<255, 0, 0, 255>>
    /\ call.shape.bbox = BBox(1, 0, SurfW, 1)
    /\ surface.buf[1] = <<255, 0, 0, 255>>
    /\ surface.buf[0] = Zero32

IntersectRectCall ==
    /\ pc = "done"
    /\ ret
    /\ call.op \in {"rasterShape", "rasterGradientShape"}
    /\ call.shape.fastTrack
    /\ surface.channelSize = 4
    /\ compositor.present
    /\ compositor.method = "IntersectMask"
    /\ compositor.bbox.min.x <= call.shape.bbox.min.x
    /\ call.shape.bbox.max.x <= compositor.bbox.max.x
    /\ compositor.bbox.min.y <= call.shape.bbox.min.y
    /\ call.shape.bbox.max.y <= compositor.bbox.max.y

\* C2: after an IntersectMask rect fill (solid or gradient) of a region R that
\* lies inside the compositor bbox B, every compositor pixel of B outside R is
\* 0, whatever the compositor held before.
C2_IntersectClearsOutside ==
    IntersectRectCall =>
        \A x \in compositor.bbox.min.x..(compositor.bbox.max.x - 1),
           y \in compositor.bbox.min.y..(compositor.bbox.max.y - 1) :
            ~InRegion(call.shape.bbox, x, y) =>
                compositor.image.buf[y * compositor.image.stride + x] = Zero32

\* C3: rasterShape with a fully transparent colour (r,g,b,0), on a rect or on
\* an RLE of any coverage, leaves every destination pixel unchanged in every
\* compositing state (none, matte, mask).
C3_TransparentIsIdentity ==
    (pc = "done" /\ call.op = "rasterShape" /\ call.color[4] = 0) =>
        surface.buf = before.dst

(***************************************************************************)
(* Specification SpecPremultiply: rasterPremultiply and                    *)
(* rasterUnpremultiply on a surface of PremulW pixels in one row.  A pixel *)
(* <<a, b2, b1, b0>> is premultiplied channel by channel: the products     *)
(* b * a of the packed multiply never carry into a neighbour's kept bits.  *)
(***************************************************************************)
PremulW == 2

rasterPremultiply(s) ==
    IF s.channelSize # 4 THEN s
    ELSE [s EXCEPT
             !.buf = ForRows(LAMBDA y, buf :
                                 MapRun(buf, y * s.stride, s.w,
                                        LAMBDA x, c :
                                            LET a == c[1]
                                            IN  Px(a, (c[2] * a) \div 256, (c[3] * a) \div 256,
                                                   (c[4] * a) \div 256)),
                             0, s.h, s.buf),
             !.premultiplied = TRUE]

rasterUnpremultiply(s) ==
    IF s.channelSize # 4 THEN s
    ELSE [s EXCEPT
             !.buf = ForRows(LAMBDA y, buf :
                                 MapRun(buf, s.stride * y, s.w,
                                        LAMBDA x, c :
                                            LET a == c[1]
                                                ch(v) == IF (v * 256) \div a > 255 THEN 255
                                                         ELSE (v * 256) \div a
                                            IN  IF a = 255 THEN c
                                                ELSE IF a = 0 THEN Px(0, 255, 255, 255)
                                                ELSE Px(a, ch(c[2]), ch(c[3]), ch(c[4]))),
                             0, s.h, s.buf),
             !.premultiplied = FALSE]

PixelSamples ==
    {Px(255, 255, 255, 255), Px(255, 0, 128, 1), Px(255, 40, 0, 200),
     Px(0, 0, 0, 0), Px(0, 10, 20, 30), Px(128, 64, 128, 0), Px(1, 1, 0, 1)}

InitPremultiply ==
    /\ \E px \in [0..(PremulW - 1) -> PixelSamples], csz \in {1, 4}, pm \in BOOLEAN :
           /\ csz = 1 => pm /\ \A k \in DOMAIN px : px[k] = Zero32
           /\ surface = [buf |-> [k \in 0..PremulW |->
                                     IF k = PremulW THEN (IF csz = 1 THEN <<7>> ELSE Px(9, 9, 9, 9))
                                     ELSE IF csz = 1 THEN <<200 + k>> ELSE px[k]],
                         stride |-> PremulW + 1, w |-> PremulW, h |-> 1,
                         channelSize |-> csz, premultiplied |-> pm]
    /\ compositor = NoCompositor
    /\ pc = "idle"
    /\ call = [op |-> "none"]
    /\ ret = FALSE
    /\ before = Snapshot(surface, compositor)

Premultiply ==
    /\ pc = "idle"
    /\ surface' = rasterPremultiply(surface)
    /\ pc' = "premultiplied"
    /\ call' = [op |-> "rasterPremultiply"]
    /\ UNCHANGED <<compositor, ret, before>>

\* on the original surface, or on the one rasterPremultiply has left
Unpremultiply ==
    /\ pc \in {"idle", "premultiplied"}
    /\ surface' = rasterUnpremultiply(surface)
    /\ pc' = IF pc = "idle" THEN "unpremultiplied" ELSE "roundtrip"
    /\ call' = [op |-> "rasterUnpremultiply"]
    /\ UNCHANGED <<compositor, ret, before>>

NextPremultiply == Premultiply \/ Unpremultiply

SpecPremultiply == InitPremultiply /\ [][NextPremultiply]_vars

\* C4: on a colour surface every opaque pixel survives premultiply followed by
\* unpremultiply unchanged, and unpremultiply turns a pixel whose alpha is 0
\* into 0x00FFFFFF.
C4_PremultiplyRoundTrip ==
    surface.channelSize = 4 =>
        \A k \in 0..(surface.w - 1) :
            /\ (pc = "roundtrip" /\ before.dst[k][1] = 255) => surface.buf[k] = before.dst[k]
            /\ (pc = "unpremultiplied" /\ before.dst[k][1] = 0) =>
                   surface.buf[k] = Px(0, 255, 255, 255)

(***************************************************************************)
(* Properties of rasterImage.                                              *)
(***************************************************************************)
UniformGray(image) == \A i \in DOMAIN image.buf : image.buf[i] = Px(128, 128, 128, 128)
DownScaleCall ==
    /\ pc = "done"
    /\ call.op = "rasterImage"
    /\ ~compositor.present
    /\ surface.channelSize = 4
    /\ Cleared(before.dst)
    /\ call.opacity = 255
    /\ call.image.rle.null
    /\ call.image.scaled
    /\ 2 * call.image.scale.num < call.image.scale.den
    /\ UniformGray(call.image)
    /\ ~call.transform.null
    /\ call.transform.invertible
    /\ call.bbox.max.x <= surface.w
    /\ call.bbox.max.y <= surface.h

\* C5: down-scaling a uniformly coloured source (scale < 0.5) with opacity 255
\* onto a cleared surface writes the source colour to every destination pixel
\* of the region, also where the 2n x 2n sample box passes the source border.
C5_DownScaleKeepsUniformColour ==
    DownScaleCall =>
        \A x \in 0..(surface.w - 1), y \in 0..(surface.h - 1) :
            InRegion(call.bbox, x, y) =>
                surface.buf[y * surface.stride + x] = Px(128, 128, 128, 128)

\* C7: whenever rasterShape, rasterStroke or rasterImage returns false, the call
\* has changed no pixel of the destination surface and no pixel of the
\* compositor buffer.
C7_FalseReturnIsSilent ==
    (pc = "done" /\ call.op \in {"rasterShape", "rasterStroke", "rasterImage"} /\ ~ret) =>
        /\ surface.buf = before.dst
        /\ CmpBuf(compositor) = before.cmp

(***************************************************************************)
(* Properties of the gradient calls.                                       *)
(***************************************************************************)
\* a gradient call that reaches a rect or RLE gradient routine
GradientCall ==
    /\ pc = "done"
    /\ call.op \in {"rasterGradientShape", "rasterGradientStroke"}
    /\ surface.channelSize = 4
    /\ ~call.fill.null
    /\ call.id \in {"linear", "radial"}
    /\ call.op = "rasterGradientShape" => (call.shape.fastTrack \/ ~call.shape.rle.null)
    /\ call.op = "rasterGradientStroke" => (call.stroke /\ ~call.shape.strokeRle.null)
Degenerate(fill, id) ==
    IF id = "linear" THEN fill.linear.len < FltEpsilon ELSE fill.radial.a < FltEpsilon

\* C6: every gradient rect/RLE path rejects a degenerate gradient (linear:
\* len < epsilon, radial: a < epsilon): it returns false and changes no pixel
\* of the destination or of the compositor, in every variant.
C6_DegenerateGradientRejected ==
    (GradientCall /\ Degenerate(call.fill, call.id)) =>
        /\ ~ret
        /\ surface.buf = before.dst
        /\ CmpBuf(compositor) = before.cmp

\* C8: rasterGradientShape and rasterGradientStroke return true whenever the
\* call fills the shape (colour surface, fill present, gradient not
\* degenerate), for rect and RLE, linear and radial, opaque and translucent
\* fills, with and without compositing.
C8_GradientFillReturnsTrue ==
    (GradientCall /\ ~Degenerate(call.fill, call.id)) => ret

(***************************************************************************)
(* The IntersectMask loops of _rasterMaskedRect, one loop test per step.   *)
(* call holds the routine's locals; a local that is not yet live is 0.     *)
(* The thread that runs the routine keeps running: weak fairness of the    *)
(* steps.                                                                  *)
(***************************************************************************)
ColourSurfaces == {s \in Surfaces : s.channelSize = 4}
IntersectCompositors == {c \in Compositors : c.present /\ c.method = "IntersectMask"}
RectShapes == {shape \in Shapes : shape.fastTrack}
InitRectLoop ==
    /\ surface \in ColourSurfaces
    /\ compositor \in IntersectCompositors
    /\ \E shape \in RectShapes, c \in Colors :
           /\ call = [op |-> "rasterMaskedRect", region |-> shape.bbox, a |-> c[4],
                      y |-> compositor.bbox.min.y, cmp |-> 0, y2 |-> 0, x |-> 0, tmp |-> 0]
    /\ pc = "for_y"
    /\ ret = FALSE
    /\ before = Snapshot(surface, compositor)

\* for (y = bbox.min.y; y < bbox.max.y; ++y): a row outside the region is
\* cleared over w pixels, the row y == region.min.y enters the loop over y2
RectLoopRows ==
    /\ pc = "for_y"
    /\ LET cstride == compositor.image.stride
           cmp == call.y * cstride + compositor.bbox.min.x
           w == call.region.max.x - call.region.min.x
       IN  IF ~(call.y < compositor.bbox.max.y)
           THEN /\ pc' = "composite"
                /\ UNCHANGED <<call, compositor>>
           ELSE IF call.y = call.region.min.y
           THEN /\ pc' = "for_y2"
                /\ call' = [call EXCEPT !.cmp = cmp, !.y2 = call.y]
                /\ UNCHANGED compositor
           ELSE /\ pc' = "for_y"
                /\ call' = [call EXCEPT !.cmp = cmp + cstride, !.y = call.y + 1]
                /\ compositor' = [compositor EXCEPT
                                      !.image.buf = rasterRGBA32(@, cmp, Zero32, 0, w)]
    /\ UNCHANGED <<surface, ret, before>>

\* for (y2 = y; y2 < region.max.y; ++y2); after it y += (h - 1) and the outer
\* loop's ++y.  h is uint32_t: with h = 0, h - 1 is 2^32 - 1 and the two
\* additions leave y as it was
RectLoopRegionRows ==
    /\ pc = "for_y2"
    /\ LET h == call.region.max.y - call.region.min.y
       IN  IF call.y2 < call.region.max.y
           THEN /\ pc' = "while_x"
                /\ call' = [call EXCEPT !.tmp = call.cmp, !.x = compositor.bbox.min.x]
           ELSE /\ pc' = "for_y"
                /\ call' = [call EXCEPT !.y = (call.y + (h - 1)) + 1]
    /\ UNCHANGED <<surface, compositor, ret, before>>

\* while (x < bbox.max.x): at x == region.min.x the w pixels of the region
\* are blended and x += w, elsewhere one pixel is cleared and ++x
RectLoopPixels ==
    /\ pc = "while_x"
    /\ LET w == call.region.max.x - call.region.min.x
       IN  IF ~(call.x < compositor.bbox.max.x)
           THEN /\ pc' = "for_y2"
                /\ call' = [call EXCEPT !.cmp = call.cmp + compositor.image.stride,
                                        !.y2 = call.y2 + 1]
                /\ UNCHANGED compositor
           ELSE IF call.x = call.region.min.x
           THEN /\ pc' = "while_x"
                /\ call' = [call EXCEPT !.tmp = call.tmp + w, !.x = call.x + w]
                /\ compositor' = [compositor EXCEPT
                                      !.image.buf = MapRun(@, call.tmp, w,
                                                        LAMBDA i, old : ALPHA_BLEND(old, call.a))]
           ELSE /\ pc' = "while_x"
                /\ call' = [call EXCEPT !.tmp = call.tmp + 1, !.x = call.x + 1]
                /\ compositor' = [compositor EXCEPT !.image.buf[call.tmp] = Zero32]
    /\ UNCHANGED <<surface, ret, before>>

\* Masking Composition: the compositor image is blended over its bbox
RectLoopComposite ==
    /\ pc = "composite"
    /\ LET r == MaskingComposition(surface, compositor, compositor.image.buf)
       IN  /\ surface' = [surface EXCEPT !.buf = r.dst]
           /\ ret' = r.ret
    /\ pc' = "done"
    /\ UNCHANGED <<compositor, call, before>>

NextRectLoop == RectLoopRows \/ RectLoopRegionRows \/ RectLoopPixels \/ RectLoopComposite

SpecRectLoop == InitRectLoop /\ [][NextRectLoop]_vars /\ WF_vars(NextRectLoop)

\* C9: every rasterShape call on a rect terminates, also for a region of zero
\* width or zero height or one not inside the compositor bbox, in every
\* compositing mode including IntersectMask.
C9_RectFillTerminates == <>(pc = "done")

(***************************************************************************)
(* Specification SpecComposite: the renderer's composite contexts.         *)
(* surface is the heap of SwSurface objects: pointer 0 is the surface set  *)
(* by target(), pointer p > 0 is the surface of CompositeCtx p, whose      *)
(* buffer is that context's image data; a pointer outside DOMAIN surface   *)
(* is not allocated.  compositor holds the renderer's mainSurface and each *)
(* live context's recover pointer.  before is the caller's stack of open   *)
(* contexts with the target each begin found; call records the last        *)
(* operation and counts the operations.                                    *)
(***************************************************************************)
CompW == 2
CompH == 1
MaxCtx == 2
MaxOps == 5

\* a clear whose rows all start at the surface's column 0
rasterClearAtRowStart(s, x, y, w, h) ==
    IF s = NullSurface THEN [ret |-> FALSE, buf |-> <<>>]
    ELSE IF s.buf = <<>> \/ s.stride = 0 \/ s.w = 0 \/ s.h = 0 THEN [ret |-> FALSE, buf |-> s.buf]
    ELSE [ret |-> TRUE,
          buf |-> ForRows(LAMBDA i, buf :
                              MapRun(buf, s.stride * (y + i), w,
                                     LAMBDA k, old : IF s.channelSize = 4 THEN Zero32 ELSE <<0>>),
                          0, h, s.buf)]

rasterClear(s, x, y, w, h) ==
    IF s = NullSurface THEN [ret |-> FALSE, buf |-> <<>>]
    ELSE IF s.buf = <<>> \/ s.stride = 0 \/ s.w = 0 \/ s.h = 0 THEN [ret |-> FALSE, buf |-> s.buf]
    ELSE IF s.channelSize = 4
    THEN [ret |-> TRUE,
          buf |-> IF w = s.stride THEN rasterRGBA32(s.buf, s.stride * y, Zero32, 0, w * h)
                  ELSE ForRows(LAMBDA i, buf :
                                   rasterRGBA32(buf, s.stride * y + x + s.stride * i, Zero32, 0, w),
                               0, h, s.buf)]
    ELSE IF s.channelSize = 1
    THEN [ret |-> TRUE,
          buf |-> IF w = s.stride THEN rasterGrayscale8(s.buf, s.stride * y, 0, 0, w * h)
                  ELSE ForRows(LAMBDA i, buf :
                                   rasterGrayscale8(buf, s.stride * y + x + s.stride * i, 0, 0, w),
                               0, h, s.buf)]
    ELSE [ret |-> TRUE, buf |-> s.buf]

\* the SwImage of a context: its data is the context surface's buffer
CtxImage(s) ==
    [buf |-> s.buf, stride |-> s.stride, w |-> s.w, h |-> s.h, ox |-> 0, oy |-> 0,
     direct |-> TRUE, scaled |-> FALSE, scale |-> [num |-> 1, den |-> 1], rle |-> NullRle]

\* p is the address new returns, data the content malloc leaves in the
\* buffer; the requested x, y, w, h are replaced by the whole main surface
beginComposite(heap, rnd, p, data) ==
    LET main == heap[rnd.mainSurface]
        w == main.w
        h == main.h
        ctxSurface == [main EXCEPT !.buf = [k \in 0..(main.w * main.h - 1) |-> data],
                                   !.stride = main.w]
        cleared == rasterClear([ctxSurface EXCEPT !.w = w, !.h = h], 0, 0, w, h).buf
    IN  [ret |-> TRUE,
         heap |-> (p :> [ctxSurface EXCEPT !.buf = cleared]) @@ heap,
         rnd |-> [mainSurface |-> p, recover |-> (p :> rnd.mainSurface) @@ rnd.recover]]

\* free(ctx->image.data); delete(ctx): the context leaves the heap, the
\* surface at target holds what the blit left
FreeCtx(heap, rnd, p, target, mainSurface, blit) ==
    [ret |-> blit.ret,
     heap |-> [q \in DOMAIN heap \ {p} |->
                  IF q = target THEN [heap[q] EXCEPT !.buf = blit.dst] ELSE heap[q]],
     rnd |-> [mainSurface |-> mainSurface,
              recover |-> [q \in DOMAIN rnd.recover \ {p} |-> rnd.recover[q]]]]

\* a variant that blits and frees without recovering the render target
endCompositeKeepTarget(heap, rnd, p, opacity) ==
    IF p = 0 THEN [ret |-> FALSE, heap |-> heap, rnd |-> rnd]
    ELSE FreeCtx(heap, rnd, p, rnd.mainSurface, rnd.mainSurface,
                 rasterImage(heap[rnd.mainSurface], NoCompositor, CtxImage(heap[p]),
                             [null |-> TRUE], BBox(0, 0, heap[p].w, heap[p].h), opacity))

\* p = 0 is the null handle; mainSurface = ctx->recover comes first, then
\* the blit onto it
endComposite(heap, rnd, p, opacity) ==
    IF p = 0 THEN [ret |-> FALSE, heap |-> heap, rnd |-> rnd]
    ELSE FreeCtx(heap, rnd, p, rnd.recover[p], rnd.recover[p],
                 rasterImage(heap[rnd.recover[p]], NoCompositor, CtxImage(heap[p]),
                             [null |-> TRUE], BBox(0, 0, heap[p].w, heap[p].h), opacity))

\* render(Shape) of a task without stroke composition, gradient or stroke:
\* the fill colour with alpha opacity * a / 255 goes to mainSurface
render(heap, rnd, shape, c, opacity) ==
    LET a == (opacity * c[4]) \div 255
        res == rasterShape(heap[rnd.mainSurface], NoCompositor, shape, c[1], c[2], c[3], a)
    IN  IF opacity = 0 \/ a = 0 THEN [ret |-> TRUE, heap |-> heap, rnd |-> rnd]
        ELSE [ret |-> TRUE,
              heap |-> [heap EXCEPT ![rnd.mainSurface].buf = res.dst],
              rnd |-> rnd]

CtxPtrs == 1..MaxCtx
TargetSurface(p) ==
    rasterCompositor([buf |-> [k \in 0..((CompW + StridePad) * CompH - 1) |->
                                  IF p = "zero" THEN Zero32
                                  ELSE Px(255, (40 * k) % 256, (17 * k + 3) % 256, 9)],
                      stride |-> CompW + StridePad, w |-> CompW, h |-> CompH,
                      cs |-> "ABGR8888", channelSize |-> 4, blender |-> NoBlender]).surface
CompShapes ==
    {[fastTrack |-> TRUE, bbox |-> bb, rle |-> NullRle, strokeRle |-> NullRle] :
        bb \in {BBox(0, 0, CompW, CompH), BBox(CompW - 1, 0, CompW, CompH)}}
CompColors == {<<255, 0, 0, 255>>, <<0, 100, 200, 128>>}

\* what a renderer call leaves behind: the heap, the renderer and the
\* returned value (a returned context is not null)
Rendered(r, c) ==
    /\ surface' = r.heap
    /\ compositor' = r.rnd
    /\ ret' = r.ret
    /\ call' = c

InitComposite ==
    /\ \E p \in {"zero", "ramp"} : surface = (0 :> TargetSurface(p))
    /\ compositor = [mainSurface |-> 0, recover |-> <<>>]
    /\ before = <<>>
    /\ call = [op |-> "target", n |-> 0]
    /\ pc = "idle"
    /\ ret = TRUE

\* new CompositeCtx or malloc fails: null is returned and nothing changes
BeginCompositeFails ==
    /\ call.n < MaxOps
    /\ call' = [op |-> "beginComposite", n |-> call.n + 1, ctx |-> 0]
    /\ ret' = FALSE
    /\ UNCHANGED <<surface, compositor, before, pc>>

BeginComposite ==
    /\ call.n < MaxOps
    /\ \E p \in CtxPtrs \ DOMAIN surface, data \in {Zero32, Px(222, 173, 190, 239)} :
           /\ Rendered(beginComposite(surface, compositor, p, data),
                       [op |-> "beginComposite", n |-> call.n + 1, ctx |-> p])
           /\ before' = Append(before, [ctx |-> p, target |-> compositor.mainSurface])
    /\ UNCHANGED pc

\* the caller closes the context it opened last
EndComposite ==
    /\ call.n < MaxOps
    /\ before # <<>>
    /\ \E opacity \in Opacities :
           LET top == before[Len(before)]
           IN  Rendered(endComposite(surface, compositor, top.ctx, opacity),
                        [op |-> "endComposite", n |-> call.n + 1, ctx |-> top.ctx,
                         opacity |-> opacity, expected |-> top.target,
                         ctxBuf |-> surface[top.ctx].buf,
                         parentBuf |-> surface[top.target].buf])
    /\ before' = SubSeq(before, 1, Len(before) - 1)
    /\ UNCHANGED pc

\* a begin that failed left the caller with the null handle
EndCompositeNull ==
    /\ call.n < MaxOps
    /\ call.op = "beginComposite" /\ call.ctx = 0
    /\ \E opacity \in Opacities :
           Rendered(endComposite(surface, compositor, 0, opacity),
                    [op |-> "endCompositeNull", n |-> call.n + 1, ctx |-> 0])
    /\ UNCHANGED <<before, pc>>

Render ==
    /\ call.n < MaxOps
    /\ \E shape \in CompShapes, c \in CompColors :
           Rendered(render(surface, compositor, shape, c, 255),
                    [op |-> "render", n |-> call.n + 1, ctx |-> compositor.mainSurface])
    /\ UNCHANGED <<before, pc>>

NextComposite ==
    \/ BeginCompositeFails
    \/ BeginComposite
    \/ EndComposite
    \/ EndCompositeNull
    \/ Render

SpecComposite == InitComposite /\ [][NextComposite]_vars

\* the pixel a blit of c over old at the given opacity leaves
BlitOver(c, old, opacity) ==
    LET tmp == IF opacity = 255 THEN c ELSE ALPHA_BLEND(c, opacity)
    IN  Add32(tmp, ALPHA_BLEND(old, IALPHA32(tmp)))

\* C10: for a properly nested sequence of beginComposite / endComposite calls,
\* the render target during an inner pass is the surface of the context opened
\* last, after each endComposite it is the surface that was the target just
\* before the matching beginComposite, and endComposite has blended the
\* context's buffer onto that restored surface and freed the context.
C10_CompositeRestoresTarget ==
    /\ compositor.mainSurface = (IF before = <<>> THEN 0 ELSE before[Len(before)].ctx)
    /\ compositor.mainSurface \in DOMAIN surface
    /\ call.op = "endComposite" =>
           /\ compositor.mainSurface = call.expected
           /\ call.ctx \notin DOMAIN surface
           /\ ret
           /\ LET s == surface[call.expected]
              IN  \A x \in 0..(s.w - 1), y \in 0..(s.h - 1) :
                      s.buf[y * s.stride + x] =
                          BlitOver(call.ctxBuf[y * s.w + x], call.parentBuf[y * s.stride + x],
                                   call.opacity)

C10_Witness ==
    /\ call.op = "endComposite"
    /\ Len(before) = 1
    /\ call.expected = before[1].ctx
    /\ call.expected # 0
    /\ call.opacity = 128
    /\ call.ctxBuf[0] = Px(255, 0, 0, 255)
    /\ surface[call.expected].buf[0] # Zero32
    /\ surface[call.expected].buf[0] # call.ctxBuf[0]

(***************************************************************************)
(* Mask calls.                                                             *)
(***************************************************************************)
MaskMethods == {"AddMask", "SubtractMask", "IntersectMask", "DifferenceMask"}
MaskShapeCall ==
    /\ pc = "done"
    /\ call.op = "rasterShape"
    /\ surface.channelSize = 4
    /\ compositor.present
    /\ compositor.method \in MaskMethods
    /\ call.shape.fastTrack \/ ~call.shape.rle.null
AddWhiteOnBlackCall ==
    /\ MaskShapeCall
    /\ compositor.method = "AddMask"
    /\ call.shape.fastTrack
    /\ call.color = <<255, 255, 255, 255>>
    /\ Cleared(before.cmp)
    /\ \A k \in DOMAIN before.dst : before.dst[k] = Px(255, 0, 0, 0)
    /\ \A x \in 0..(surface.w - 1), y \in 0..(surface.h - 1) :
           InRegion(call.shape.bbox, x, y) => InRegion(compositor.bbox, x, y)

\* C11: a mask-mode rasterShape call returns true and leaves the destination
\* equal to the destination it found with the final compositor buffer blitted
\* onto it once over the compositor bbox (dst <- c + blend(dst, 255 - alpha(c)));
\* AddMask of an opaque white rect on a cleared compositor over an opaque-black
\* destination leaves 0xFFFFFFFF inside the rect and 0xFF000000 outside; the
\* masked routines given a method that is not a mask method return false and
\* write nothing.
C11_MaskBlitsCompositorOnce ==
    MaskShapeCall =>
        /\ ret
        /\ \A x \in 0..(surface.stride - 1), y \in 0..(surface.h - 1) :
               LET k == y * surface.stride + x
               IN  surface.buf[k] =
                       IF InRegion(compositor.bbox, x, y)
                       THEN BlitOver(compositor.image.buf[y * compositor.image.stride + x],
                                     before.dst[k], 255)
                       ELSE before.dst[k]
        /\ AddWhiteOnBlackCall =>
               \A x \in 0..(surface.stride - 1), y \in 0..(surface.h - 1) :
                   surface.buf[y * surface.stride + x] =
                       IF InRegion(call.shape.bbox, x, y) THEN Px(255, 255, 255, 255)
                       ELSE Px(255, 0, 0, 0)
        /\ \A m \in Methods \ MaskMethods :
               LET s == [surface EXCEPT !.buf = before.dst]
                   cmp == [compositor EXCEPT !.method = m, !.image.buf = before.cmp]
                   c == call.color
                   silent(r) == ~r.ret /\ r.dst = before.dst /\ r.cmp = before.cmp
               IN  IF call.shape.fastTrack
                   THEN silent(rasterMaskedRect(s, cmp, call.shape.bbox, c[1], c[2], c[3], c[4]))
                   ELSE silent(rasterMaskedRle(s, cmp, call.shape.rle, c[1], c[2], c[3], c[4]))

C11_Witness ==
    /\ AddWhiteOnBlackCall
    /\ call.shape.bbox = BBox(1, 0, SurfW, 1)
    /\ compositor.bbox = FullBBox
    /\ surface.buf[1] = Px(255, 255, 255, 255)
    /\ surface.buf[0] = Px(255, 0, 0, 0)
    /\ before.dst[1] = Px(255, 0, 0, 0)

(***************************************************************************)
(* Specification SpecAddMask: two rasterShape calls under AddMask, made in *)
(* the order (first, second) on surface / compositor and in the order      *)
(* (second, first) on a second copy kept in before.                        *)
(***************************************************************************)
\* the pixels a shape draws: its rect, or the runs of its spans
Covers(shape, x, y) ==
    IF shape.fastTrack THEN InRegion(shape.bbox, x, y)
    ELSE \E i \in 1..Len(shape.rle.spans) :
             LET sp == shape.rle.spans[i]
             IN  sp.y = y /\ sp.x <= x /\ x < sp.x + sp.len

\* non-empty rects, and span lists of coverage 255
OpaqueShapes ==
    LET rle(spans) == [null |-> FALSE, spans |-> spans, past |-> Span(0, -1, 1, 0)]
        shape(rl) == [fastTrack |-> FALSE, bbox |-> FullBBox, rle |-> rl, strokeRle |-> rl]
    IN  {sh \in RectShapes : sh.bbox.min.x < sh.bbox.max.x /\ sh.bbox.min.y < sh.bbox.max.y}
          \cup {shape(rle(<<Span(0, 0, SurfW, 255)>>)),
                shape(rle(<<Span(1, SurfH - 1, 1, 255)>>)),
                shape(rle(<<Span(0, 0, 1, 255), Span(0, SurfH - 1, 1, 255),
                            Span(SurfW - 1, SurfH - 1, 1, 255)>>))}

\* rasterShape of d.shape in the colour d.color on the buffers of st
Drawn(st, d) ==
    rasterShape([surface EXCEPT !.buf = st.dst], [compositor EXCEPT !.image.buf = st.cmp],
                d.shape, d.color[1], d.color[2], d.color[3], d.color[4])

InitAddMask ==
    /\ surface \in ColourSurfaces
    /\ compositor \in {c \in Compositors : c.present /\ c.method = "AddMask"}
    /\ call \in {d \in [first : [shape : OpaqueShapes, color : {c \in Colors : c[4] = 255}],
                        second : [shape : OpaqueShapes, color : {c \in Colors : c[4] = 255}]] :
                    \A x \in 0..(SurfW - 1), y \in 0..(SurfH - 1) :
                        ~(Covers(d.first.shape, x, y) /\ Covers(d.second.shape, x, y))}
    /\ pc = "first"
    /\ ret = TRUE
    /\ before = Snapshot(surface, compositor)

\* one call in each order: r is the call on surface / compositor, o the call
\* on the copy
AddMaskDrawn(r, o, next) ==
    /\ surface' = [surface EXCEPT !.buf = r.dst]
    /\ compositor' = [compositor EXCEPT !.image.buf = r.cmp]
    /\ before' = [dst |-> o.dst, cmp |-> o.cmp]
    /\ ret' = (ret /\ r.ret /\ o.ret)
    /\ pc' = next
    /\ UNCHANGED call

AddMaskFirst ==
    /\ pc = "first"
    /\ AddMaskDrawn(Drawn(Snapshot(surface, compositor), call.first),
                    Drawn(before, call.second), "second")

AddMaskSecond ==
    /\ pc = "second"
    /\ AddMaskDrawn(Drawn(Snapshot(surface, compositor), call.second),
                    Drawn(before, call.first), "done")

NextAddMask == AddMaskFirst \/ AddMaskSecond

SpecAddMask == InitAddMask /\ [][NextAddMask]_vars

\* C12: two non-overlapping fully opaque regions (rects or span lists of
\* coverage 255, colours of alpha 255) drawn under AddMask leave the same
\* compositor buffer whichever of the two is drawn first.
C12_AddMaskCommutes ==
    pc = "done" => ret /\ compositor.image.buf = before.cmp

C12_Witness ==
    /\ pc = "done"
    /\ call.first.shape.fastTrack
    /\ call.first.shape.bbox = BBox(1, 0, 2, 1)
    /\ ~call.second.shape.fastTrack
    /\ Len(call.second.shape.rle.spans) = 3
    /\ call.first.color = <<255, 0, 0, 255>>
    /\ call.second.color = <<255, 255, 255, 255>>
    /\ compositor.image.buf[0] = Px(255, 255, 255, 255)
    /\ compositor.image.buf[1] = Join(surface, 255, 0, 0, 255)
    /\ compositor.image.buf = before.cmp

(***************************************************************************)
(* Return values of the raster calls.                                      *)
(***************************************************************************)
\* a grayscale surface has no mask path
UnsupportedSurface == surface.channelSize # 4 /\ compositing(compositor) /\ ~matting(compositor)
EmptyGeometry(shape) ==
    IF shape.fastTrack
    THEN shape.bbox.max.x <= shape.bbox.min.x \/ shape.bbox.max.y <= shape.bbox.min.y
    ELSE shape.rle.null
NonEmptyGeometry(shape) ==
    IF shape.fastTrack THEN ~EmptyGeometry(shape) ELSE Len(shape.rle.spans) > 0

\* C13: rasterShape returns false when the surface configuration is
\* unsupported or the geometry is empty (a rect of zero extent, a missing rle),
\* and true for every non-empty shape on a supported surface.
C13_ShapeFalseIffEmptyOrUnsupported ==
    (pc = "done" /\ call.op = "rasterShape") =>
        /\ (UnsupportedSurface \/ EmptyGeometry(call.shape)) => ~ret
        /\ (~UnsupportedSurface /\ NonEmptyGeometry(call.shape)) => ret

\* C14: rasterImage returns false, and writes no pixel, for every bbox that
\* has no pixel in common with the surface (a bbox whose max.x or max.y is 0
\* included) and for every grayscale surface.
C14_ImageOutsideRejected ==
    (pc = "done" /\ call.op = "rasterImage"
        /\ \/ surface.channelSize = 1
           \/ \A x \in 0..(surface.w - 1), y \in 0..(surface.h - 1) : ~InRegion(call.bbox, x, y))
    => (~ret /\ surface.buf = before.dst /\ CmpBuf(compositor) = before.cmp)

(***************************************************************************)
(* Specification SpecSurface: one of rasterCompositor, rasterConvertCS and *)
(* rasterClear on one surface; rasterClear may be repeated with the same   *)
(* arguments.  before is the surface the call found.                       *)
(***************************************************************************)
\* the byte swap of the colour-space conversions: bytes 0 and 2 of every
\* pixel of the w x h area change places
cRasterABGRtoARGB(s) ==
    [ret |-> TRUE,
     surface |-> [s EXCEPT !.buf =
                     ForRows(LAMBDA y, buf :
                                 MapRun(buf, y * s.stride, s.w,
                                        LAMBDA x, c : Px(c[1], c[4], c[3], c[2])),
                             0, s.h, s.buf)]]
cRasterARGBtoABGR(s) == cRasterABGRtoARGB(s)

\* a conversion between any two distinct 32-bit colour spaces
rasterConvertCSAnyPair(s, to) ==
    IF s.cs # to /\ {s.cs, to} \subseteq {"ABGR8888", "ARGB8888", "ABGR8888S", "ARGB8888S"}
    THEN cRasterABGRtoARGB([s EXCEPT !.cs = to])
    ELSE [ret |-> FALSE, surface |-> s]

rasterConvertCS(s, to) ==
    LET from == s.cs
    IN  IF (from = "ABGR8888" /\ to = "ARGB8888") \/ (from = "ABGR8888S" /\ to = "ARGB8888S")
        THEN cRasterABGRtoARGB([s EXCEPT !.cs = to])
        ELSE IF (from = "ARGB8888" /\ to = "ABGR8888") \/ (from = "ARGB8888S" /\ to = "ABGR8888S")
        THEN cRasterARGBtoABGR([s EXCEPT !.cs = to])
        ELSE [ret |-> FALSE, surface |-> s]

InitSurface ==
    /\ surface \in
         LET cspaces == {"ABGR8888", "ARGB8888", "ABGR8888S", "ARGB8888S", "Grayscale8",
                         "Unsupported"}
             make(cs, p, bl) ==
                 [buf |-> PatternBuf(p, IF cs = "Grayscale8" THEN 1 ELSE 4), stride |-> Stride,
                  w |-> SurfW, h |-> SurfH, cs |-> cs,
                  channelSize |-> IF cs = "Grayscale8" THEN 1 ELSE 4, blender |-> bl]
             full == make("ABGR8888", "ramp", NoBlender)
         IN  {make(cs, p, bl) : cs \in cspaces, p \in {"ramp", "beef"},
                                bl \in {NoBlender, MakeSurface("ARGB8888", 4, "zero").blender}}
               \cup {NullSurface, [full EXCEPT !.buf = <<>>], [full EXCEPT !.stride = 0],
                     [full EXCEPT !.w = 0], [full EXCEPT !.h = 0]}
    /\ compositor = NoCompositor
    /\ pc = "idle"
    /\ call = [op |-> "none"]
    /\ ret = FALSE
    /\ before = surface

RasterCompositor ==
    /\ pc = "idle"
    /\ surface # NullSurface
    /\ surface' = rasterCompositor(surface).surface
    /\ ret' = rasterCompositor(surface).ret
    /\ pc' = "done"
    /\ call' = [op |-> "rasterCompositor"]
    /\ before' = surface
    /\ UNCHANGED compositor

RasterConvertCS ==
    /\ pc = "idle"
    /\ surface # NullSurface
    /\ surface.buf # <<>>
    /\ \E to \in {"ABGR8888", "ARGB8888", "ABGR8888S", "ARGB8888S", "Grayscale8", "Unsupported"} :
           /\ surface' = rasterConvertCS(surface, to).surface
           /\ ret' = rasterConvertCS(surface, to).ret
           /\ call' = [op |-> "rasterConvertCS", to |-> to]
    /\ pc' = "done"
    /\ before' = surface
    /\ UNCHANGED compositor

\* the rectangle lies within the rows of the buffer
RasterClear ==
    /\ pc = "idle"
    /\ \E x \in 0..Stride, y \in 0..SurfH, w \in 0..Stride, h \in 0..SurfH :
           /\ x + w <= Stride
           /\ y + h <= SurfH
           /\ surface' = IF surface = NullSurface THEN surface
                         ELSE [surface EXCEPT !.buf = rasterClear(surface, x, y, w, h).buf]
           /\ ret' = rasterClear(surface, x, y, w, h).ret
           /\ call' = [op |-> "rasterClear", x |-> x, y |-> y, w |-> w, h |-> h, once |-> <<>>]
    /\ pc' = "cleared"
    /\ before' = surface
    /\ UNCHANGED compositor

\* the same clear once more; call.once keeps the buffer the first clear left
RasterClearAgain ==
    /\ pc = "cleared"
    /\ surface # NullSurface
    /\ surface' = [surface EXCEPT
                      !.buf = rasterClear(surface, call.x, call.y, call.w, call.h).buf]
    /\ ret' = rasterClear(surface, call.x, call.y, call.w, call.h).ret
    /\ call' = [call EXCEPT !.once = surface.buf]
    /\ pc' = "clearedTwice"
    /\ UNCHANGED <<compositor, before>>

NextSurface == RasterCompositor \/ RasterConvertCS \/ RasterClear \/ RasterClearAgain

SpecSurface == InitSurface /\ [][NextSurface]_vars

\* C15: rasterCompositor on a surface whose colour space is none of ABGR8888,
\* ABGR8888S, ARGB8888, ARGB8888S returns false and leaves every field of
\* surface.blender as it was before the call.
C15_UnsupportedInstallsNothing ==
    (pc = "done" /\ call.op = "rasterCompositor"
        /\ before.cs \notin {"ABGR8888", "ABGR8888S", "ARGB8888", "ARGB8888S"})
    => (~ret /\ surface.blender = before.blender)

\* C16: rasterConvertCS returns true exactly for ABGR8888 <-> ARGB8888 and
\* ABGR8888S <-> ARGB8888S, and then the surface's colour space is the target;
\* for every other pair it returns false and leaves the surface as it was.
C16_ConvertOnlySwapsByteOrder ==
    (pc = "done" /\ call.op = "rasterConvertCS") =>
        IF {before.cs, call.to} \in {{"ABGR8888", "ARGB8888"}, {"ABGR8888S", "ARGB8888S"}}
        THEN ret /\ surface.cs = call.to
        ELSE ~ret /\ surface = before

C16_Witness ==
    /\ pc = "done"
    /\ call.op = "rasterConvertCS"
    /\ before.cs = "ABGR8888S"
    /\ call.to = "ARGB8888S"
    /\ ret
    /\ surface.cs = "ARGB8888S"
    /\ before.buf[0] = Px(222, 173, 190, 239)
    /\ surface.buf[0] = Px(222, 239, 190, 173)

\* C17: rasterClear(surface, x, y, w, h) zeroes every pixel of the rectangle
\* [x, x+w) x [y, y+h) and changes no other, on the w == stride path and on the
\* row-by-row path; the same clear once more leaves the buffer bit for bit as
\* the first left it; on a null surface, a null buffer or a surface of zero
\* stride, width or height it returns false and writes nothing.
C17_ClearZeroesExactlyTheRect ==
    (pc \in {"cleared", "clearedTwice"} /\ call.op = "rasterClear") =>
        IF before = NullSurface
        THEN ~ret /\ surface = before
        ELSE IF before.buf = <<>> \/ before.stride = 0 \/ before.w = 0 \/ before.h = 0
        THEN ~ret /\ surface = before
        ELSE /\ ret
             /\ \A k \in DOMAIN surface.buf :
                    surface.buf[k] =
                        IF InRegion(BBox(call.x, call.y, call.x + call.w, call.y + call.h),
                                    k % surface.stride, k \div surface.stride)
                        THEN (IF surface.channelSize = 4 THEN Zero32 ELSE <<0>>)
                        ELSE before.buf[k]
             /\ pc = "clearedTwice" => surface.buf = call.once

C17_Witness ==
    /\ pc = "clearedTwice"
    /\ call.op = "rasterClear"
    /\ ret
    /\ call.w = surface.stride
    /\ call.y = 1
    /\ call.h = 1
    /\ before.buf[Stride] = Px(222, 173, 190, 239)
    /\ surface.buf[Stride] = Zero32
    /\ surface.buf[0] = Px(222, 173, 190, 239)
    /\ surface.buf = call.once

(***************************************************************************)
(* Dispatch.                                                               *)
(***************************************************************************)
\* the path the compositing state selects
DispatchPath(cmp) ==
    IF ~cmp.present THEN "plain"
    ELSE CASE cmp.method \in {"None", "ClipPath"} -> "plain"
           [] cmp.method \in {"AlphaMask", "InvAlphaMask", "LumaMask", "InvLumaMask"} -> "matte"
           [] cmp.method \in MaskMethods -> "mask"

\* a call that reaches one of the rect, rle, gradient or image dispatchers
DispatchedCall ==
    /\ pc \in {"done", "hung"}
    /\ \/ call.op = "rasterShape" /\ (call.shape.fastTrack \/ ~call.shape.rle.null)
       \/ /\ call.op = "rasterGradientShape"
          /\ surface.channelSize = 4
          /\ ~call.fill.null
          /\ call.id \in {"linear", "radial"}
          /\ call.shape.fastTrack \/ ~call.shape.rle.null
       \/ /\ call.op = "rasterImage"
          /\ surface.channelSize = 4
          /\ ~(call.bbox.max.x < 0 \/ call.bbox.max.y < 0
                 \/ call.bbox.min.x >= surface.w \/ call.bbox.min.y >= surface.h)
          /\ call.image.direct \/ call.transform.null \/ call.transform.invertible

\* what the routine of the given path leaves in the two buffers
PathResult(s, cmp, c, path) ==
    LET plain == path = "plain"
        matte == path = "matte"
        cb == CmpBuf(cmp)
    IN  IF c.op = "rasterShape"
        THEN LET a == c.color[4]
                 m(v) == IF a < 255 THEN MULTIPLY(v, a) ELSE v
                 r == m(c.color[1])
                 g == m(c.color[2])
                 b == m(c.color[3])
             IN  IF c.shape.fastTrack
                 THEN (CASE plain /\ a = 255 -> rasterSolidRect(s, cb, c.shape.bbox, r, g, b)
                         [] plain /\ a # 255 -> cRasterTranslucentRect(s, cb, c.shape.bbox, r, g, b, a)
                         [] matte -> rasterMattedRect(s, cmp, c.shape.bbox, r, g, b, a)
                         [] OTHER -> rasterMaskedRect(s, cmp, c.shape.bbox, r, g, b, a))
                 ELSE (CASE plain /\ a = 255 -> rasterSolidRle(s, cb, c.shape.rle, r, g, b)
                         [] plain /\ a # 255 -> cRasterTranslucentRle(s, cb, c.shape.rle, r, g, b, a)
                         [] matte -> rasterMattedRle(s, cmp, c.shape.rle, r, g, b, a)
                         [] OTHER -> rasterMaskedRle(s, cmp, c.shape.rle, r, g, b, a))
        ELSE IF c.op = "rasterGradientShape"
        THEN IF c.shape.fastTrack
             THEN (CASE plain /\ c.fill.translucent ->
                            rasterTranslucentGradientRect(s, cb, c.shape.bbox, c.fill, c.id)
                     [] plain /\ ~c.fill.translucent ->
                            rasterSolidGradientRect(s, cb, c.shape.bbox, c.fill, c.id)
                     [] matte -> rasterGradientMattedRect(s, cmp, c.shape.bbox, c.fill, c.id)
                     [] OTHER -> rasterGradientMaskedRect(s, cmp, c.shape.bbox, c.fill, c.id))
             ELSE (CASE plain /\ c.fill.translucent ->
                            rasterTranslucentGradientRle(s, cb, c.shape.rle, c.fill, c.id)
                     [] plain /\ ~c.fill.translucent ->
                            rasterSolidGradientRle(s, cb, c.shape.rle, c.fill, c.id)
                     [] matte -> rasterGradientMattedRle(s, cmp, c.shape.rle, c.fill, c.id)
                     [] OTHER -> rasterGradientMaskedRle(s, cmp, c.shape.rle, c.fill, c.id))
        ELSE LET im == c.image
                 o == c.opacity
                 it == IF c.transform.null THEN [e11 |-> 1, e13 |-> 0, e22 |-> 1, e23 |-> 0]
                       ELSE c.transform.inverse
                 hs == halfScale(im.scale)
             IN  CASE im.direct /\ im.rle.null ->
                          (CASE plain -> rasterDirectRGBAImage(s, im, c.bbox, o) @@ [cmp |-> cb]
                             [] matte -> rasterDirectMattedRGBAImage(s, cmp, im, c.bbox, o)
                             [] OTHER -> rasterDirectMaskedRGBAImage(s, cmp, im, c.bbox, o))
                   [] im.direct /\ ~im.rle.null ->
                          (CASE plain -> rasterDirectRleRGBAImage(s, cb, im, o)
                             [] matte -> rasterDirectMattedRleRGBAImage(s, cmp, im, o)
                             [] OTHER -> rasterDirectMaskedRleRGBAImage(s, cmp, im, o))
                   [] ~im.direct /\ im.rle.null ->
                          (CASE plain -> rasterScaledRGBAImage(s, cb, im, it, c.bbox, o, hs)
                             [] matte -> rasterScaledMattedRGBAImage(s, cmp, im, it, c.bbox, o, hs)
                             [] OTHER -> rasterScaledMaskedRGBAImage(s, cmp, im, it, c.bbox, o, hs))
                   [] ~im.direct /\ ~im.rle.null ->
                          (CASE plain -> rasterScaledRleRGBAImage(s, cb, im, it, c.bbox, o, hs)
                             [] matte -> rasterScaledMattedRleRGBAImage(s, cmp, im, it, c.bbox, o, hs)
                             [] OTHER -> rasterScaledMaskedRleRGBAImage(s, cmp, im, it, c.bbox, o, hs))

\* C18: the compositing state selects one path: no compositor, None or
\* ClipPath the non-composited routine, the four matte modes the matte routine,
\* the four mask modes the mask routine; the rect, rle, gradient and image
\* dispatchers all leave the buffers as the routine of that path leaves them.
C18_DispatchPartitionsModes ==
    DispatchedCall =>
        LET s == [surface EXCEPT !.buf = before.dst]
            cmp == IF compositor.present THEN [compositor EXCEPT !.image.buf = before.cmp]
                   ELSE compositor
            same(e) == surface.buf = e.dst /\ CmpBuf(compositor) = e.cmp
        IN  same(PathResult(s, cmp, call, DispatchPath(compositor)))

C18_Witness ==
    /\ DispatchedCall
    /\ pc = "done"
    /\ call.op = "rasterImage"
    /\ call.image.direct /\ call.image.rle.null
    /\ call.bbox = FullBBox
    /\ compositor.present
    /\ compositor.method = "AddMask"
    /\ compositor.image.buf # before.cmp
    /\ surface.buf # before.dst
    /\ ret

(***************************************************************************)
(* Direct RLE image blit.                                                  *)
(***************************************************************************)
DirectRleImageCall ==
    /\ pc = "done"
    /\ call.op = "rasterImage"
    /\ surface.channelSize = 4
    /\ ~compositing(compositor)
    /\ call.image.direct
    /\ ~call.image.rle.null
    /\ ~(call.bbox.max.x < 0 \/ call.bbox.max.y < 0
           \/ call.bbox.min.x >= surface.w \/ call.bbox.min.y >= surface.h)

\* every pixel of every span blended: dst <- s + blend(dst, 255 - alpha(s)),
\* s the image pixel scaled by coverage * opacity / 255
FullSpanBlit(image, opacity, stride, dst) ==
    ForSpans(LAMBDA span, buf :
                 MapRun(buf, span.y * stride + span.x, span.len,
                        LAMBDA x, old :
                            BlitOver(image.buf[(span.y + image.oy) * image.stride
                                               + (span.x + image.ox) + x],
                                     old, MULTIPLY(span.coverage, opacity))),
             1, image.rle.spans, dst)

\* C19: the non-composited direct RLE image blit updates every pixel of every
\* span as dst <- s + blend(dst, 255 - alpha(s)), s being the image pixel scaled
\* by coverage * opacity / 255, also when that alpha is 255.
C19_DirectRleBlitsWholeSpans ==
    DirectRleImageCall =>
        /\ ret
        /\ surface.buf = FullSpanBlit(call.image, call.opacity, surface.stride, before.dst)

(***************************************************************************)
(* Radial gradient under a mask.                                           *)
(***************************************************************************)
RadialMaskRleCall ==
    /\ pc = "done"
    /\ call.op = "rasterGradientShape"
    /\ call.id = "radial"
    /\ ~call.shape.fastTrack
    /\ ~call.shape.rle.null
    /\ ~call.fill.null
    /\ call.fill.radial.a >= FltEpsilon
    /\ call.fill.linear.len >= FltEpsilon
    /\ surface.channelSize = 4
    /\ compositor.present
    /\ compositor.method \in {"AddMask", "SubtractMask", "DifferenceMask"}

\* the compositor buffer after the radial span writer has run over the spans
RadialMaskFill(cmp, cbuf, rle, fill) ==
    LET op == CASE cmp.method = "AddMask" -> "AddMask"
                [] cmp.method = "SubtractMask" -> "SubMask"
                [] cmp.method = "DifferenceMask" -> "DifMask"
    IN  ForSpans(LAMBDA span, buf :
                     fillSpan("fillRadial", buf, fill, span.y * cmp.image.stride + span.x,
                              span.y, span.x, span.len, op, span.coverage, <<>>),
                 1, rle.spans, cbuf)

\* C20: a mask-mode radial gradient RLE fill updates the compositor from the
\* colours of the radial span writer, the ones the non-composited radial RLE
\* fill draws, and never from the linear gradient's.
C20_RadialMaskUsesRadialWriter ==
    RadialMaskRleCall =>
        compositor.image.buf =
            RadialMaskFill(compositor, before.cmp, call.shape.rle, call.fill)


(***************************************************************************)
(* Gradient fills under a compositor: which compositor pixel goes with     *)
(* which destination coordinate.                                           *)
(***************************************************************************)
LinearCompositeCall ==
    /\ pc = "done"
    /\ call.op = "rasterGradientShape"
    /\ call.id = "linear"
    /\ ~call.fill.null
    /\ call.fill.linear.len >= FltEpsilon
    /\ surface.channelSize = 4
    /\ compositor.present
    /\ compositor.method \notin {"None", "ClipPath"}
    /\ call.shape.fastTrack \/ ~call.shape.rle.null
    \* the IntersectMask walk is looked at where it reaches every span
    /\ compositor.method = "IntersectMask" => compositor.bbox = FullBBox

\* the coordinates a gradient fill of the shape processes, with their coverage
GradientPixels(shape) ==
    IF shape.fastTrack
    THEN {[x |-> x, y |-> y, coverage |-> 255] :
              x \in shape.bbox.min.x..(shape.bbox.max.x - 1),
              y \in shape.bbox.min.y..(shape.bbox.max.y - 1)}
    ELSE UNION {{[x |-> shape.rle.spans[i].x + k, y |-> shape.rle.spans[i].y,
                  coverage |-> shape.rle.spans[i].coverage] :
                     k \in 0..(shape.rle.spans[i].len - 1)} :
                i \in 1..Len(shape.rle.spans)}

\* C21: in every gradient matte and mask path, rect and RLE, the compositor
\* pixel read or written while destination coordinate (x, y) is processed is
\* the compositor pixel at the same (x, y), also when a span starts at x > 0.
C21_GradientCompositorSameXY ==
    LinearCompositeCall =>
        \A p \in GradientPixels(call.shape) :
            LET coff == p.y * compositor.image.stride + p.x
                doff == p.y * surface.stride + p.x
                op == CASE compositor.method = "AddMask" -> "AddMask"
                        [] compositor.method = "SubtractMask" -> "SubMask"
                        [] compositor.method = "IntersectMask" -> "IntMask"
                        [] OTHER -> "DifMask"
            IN  IF matting(compositor)
                THEN surface.buf[doff] =
                         fillSpan("fillLinear", before.dst, call.fill, doff, p.y, p.x, 1,
                                  "Matte", p.coverage,
                                  [i \in 0..0 |->
                                      MatteAlpha(surface, compositor,
                                                 coff * compositor.image.channelSize)])[doff]
                ELSE compositor.image.buf[coff] =
                         fillSpan("fillLinear", before.cmp, call.fill, coff, p.y, p.x, 1,
                                  op, p.coverage, <<>>)[coff]


(***************************************************************************)
(* Direct images under AddMask.                                            *)
(***************************************************************************)
AddMaskDirectImageCall ==
    /\ pc = "done"
    /\ call.op = "rasterImage"
    /\ surface.channelSize = 4
    /\ compositor.present
    /\ compositor.method = "AddMask"
    /\ call.image.direct
    /\ call.bbox.min.x >= 0 /\ call.bbox.min.y >= 0
    /\ call.bbox.max.x <= surface.w /\ call.bbox.max.y <= surface.h

\* cmp <- src + blend(cmp, 255 - alpha(src)) on every pixel of the region,
\* src the image pixel scaled by the opacity
AddMaskRegion(image, region, opacity, stride, cbuf) ==
    [k \in DOMAIN cbuf |->
        IF k % stride < SurfW /\ InRegion(region, k % stride, k \div stride)
        THEN BlitOver(image.buf[(k \div stride + image.oy) * image.stride
                                + ((k % stride) + image.ox)],
                      cbuf[k], opacity)
        ELSE cbuf[k]]

\* C22: under AddMask the direct-image rect and RLE variants with opacity (or
\* coverage * opacity) below 255 update the compositor as every other source
\* kind does, cmp <- src + blend(cmp, 255 - alpha(src)) with src the image pixel
\* scaled by coverage and opacity, also where the image pixel's own alpha is
\* below 255.
C22_AddMaskImageUsesSharedFormula ==
    AddMaskDirectImageCall =>
        compositor.image.buf =
            IF call.image.rle.null
            THEN AddMaskRegion(call.image, call.bbox, call.opacity, compositor.image.stride,
                               before.cmp)
            ELSE FullSpanBlit(call.image, call.opacity, compositor.image.stride, before.cmp)


(***************************************************************************)
(* Scaled image blits over a region.                                       *)
(***************************************************************************)
ScaledRegionImageCall ==
    /\ pc = "done"
    /\ call.op = "rasterImage"
    /\ surface.channelSize = 4
    /\ ~call.image.direct
    /\ call.image.rle.null
    /\ call.transform.null \/ call.transform.invertible
    /\ ~compositing(compositor) \/ matting(compositor)
    /\ call.bbox.min.x >= 0 /\ call.bbox.min.y >= 0
    /\ call.bbox.max.x <= surface.w /\ call.bbox.max.y <= surface.h
    /\ call.bbox.min.x < surface.w /\ call.bbox.min.y < surface.h

\* the destination after a scaled blit in which iteration (x, y) reads the
\* matte at (x, y) and writes the destination at (x, y), or skips it
ScaledBlitInPlace(s, cmp, image, transform, region, opacity, dst) ==
    LET it == IF transform.null THEN [e11 |-> 1, e13 |-> 0, e22 |-> 1, e23 |-> 0]
              ELSE transform.inverse
        sx(k) == (k % s.stride) * it.e11 + it.e13
        sy(k) == (k \div s.stride) * it.e22 + it.e23
        sample(k) == ScaledSample(image, sx(k), sy(k), halfScale(image.scale))
        m(k) == MatteAlpha(s, cmp, ((k \div s.stride) * cmp.image.stride + (k % s.stride))
                                       * cmp.image.channelSize)
    IN  [k \in DOMAIN dst |->
            IF /\ k % s.stride < s.w
               /\ InRegion(region, k % s.stride, k \div s.stride)
               /\ sx(k) < image.w
               /\ sy(k) < image.h
            THEN IF compositing(cmp)
                 THEN BlitOver(ALPHA_BLEND(sample(k), IF opacity = 255 THEN m(k)
                                                      ELSE MULTIPLY(opacity, m(k))),
                               dst[k], 255)
                 ELSE BlitOver(sample(k), dst[k], opacity)
            ELSE dst[k]]

\* C23: in the scaled image blits over a region, plain and matte, iteration
\* (x, y) addresses destination pixel (x, y) and compositor pixel (x, y); a
\* row or pixel whose source coordinate is outside the image is left unchanged
\* and the rows processed after it are written to their own rows.
C23_ScaledBlitKeepsRows ==
    ScaledRegionImageCall =>
        surface.buf = ScaledBlitInPlace(surface, compositor, call.image, call.transform,
                                        call.bbox, call.opacity, before.dst)


(***************************************************************************)
(* Solid-colour fills under a matte.                                       *)
(***************************************************************************)
MattedSolidCall ==
    /\ pc = "done"
    /\ call.op = "rasterShape"
    /\ compositing(compositor)
    /\ matting(compositor)
    /\ call.shape.fastTrack \/ ~call.shape.rle.null

\* the matte value the blender reads for destination coordinate (x, y)
MatteAt(x, y) ==
    MatteAlpha(surface, compositor,
               (y * compositor.image.stride + x) * compositor.image.channelSize)

\* the destination the same call leaves on the same surface without compositor
PlainFill ==
    rasterShape([surface EXCEPT !.buf = before.dst], NoCompositor, call.shape,
                call.color[1], call.color[2], call.color[3], call.color[4]).dst

\* C24: for a solid-colour rect or RLE fill under a matte mode, a destination
\* pixel whose matte value is 0 is unchanged, and one whose matte value is 255
\* receives exactly what the non-composited fill of the same premultiplied
\* colour, opaque or translucent, writes there.
C24_MatteMultipliesSource ==
    MattedSolidCall =>
        \A x \in 0..(surface.w - 1), y \in 0..(surface.h - 1) :
            Covers(call.shape, x, y) =>
                /\ MatteAt(x, y) = 0 =>
                       surface.buf[y * surface.stride + x] = before.dst[y * surface.stride + x]
                /\ MatteAt(x, y) = 255 =>
                       surface.buf[y * surface.stride + x] = PlainFill[y * surface.stride + x]


(***************************************************************************)
(* Specification SpecRenderer: the engine counters, the preparation tasks  *)
(* and the renderer thread.  surface holds the process-wide engine state   *)
(* [initEngine, rendererCnt, mpool]; mpool is "none" before the first      *)
(* mpoolInit, "live" after a successful mpoolInit and "dead" after         *)
(* mpoolTerm.  compositor maps each task to its fields [opacity, flags,    *)
(* compList, sdata, shape, compStroking] and pc maps it to the position of *)
(* its run: "none" (not allocated), "idle" (no run in flight), "queued"    *)
(* (handed to the scheduler), "build" (run is rebuilding the task's shape) *)
(* or "clip" (run is in its composition loop, reading the shapes of the    *)
(* targets in compList).  call is the renderer thread's last operation,    *)
(* ret what it returned, and before records the engine state the last      *)
(* mpoolTerm call found.  Task 1 is a shape used as composite target,      *)
(* task 2 a shape that may be clipped by it.  The shapes tried have a      *)
(* valid path: the outline, rle and colour-table generators succeed.  The  *)
(* engine calls are made while no task is allocated.                       *)
(***************************************************************************)
MaxRenderers == 2
TaskIds == {1, 2}

\* Task::done(), the scheduler's join: the caller is blocked until the
\* task's run, if one was requested, has completed
doneWithoutJoin(runs, t) == TRUE

done(runs, t) == runs[t] \in {"none", "idle"}

\* _termEngine: term tells whether mpoolTerm was called
termEngine(e) ==
    IF e.rendererCnt > 0 THEN [engine |-> e, term |-> FALSE]
    ELSE [engine |-> [e EXCEPT !.mpool = "dead"], term |-> TRUE]

\* SwShapeTask::run on the task's fields; shape.rle and shape.strokeRle say
\* whether the fill and the stroke spans exist
run(task) ==
    LET sdata == task.sdata
        flags == task.flags
        opacity == task.opacity
        strokeAlpha == IF sdata.strokeWidth > 0 THEN sdata.strokeAlpha ELSE 0
        prepareShape == ~task.shape.rle /\ ("Color" \in flags \/ opacity > 0)
        doShape == flags \cap {"Path", "Transform"} # {} \/ prepareShape
        alpha == ((sdata.fillAlpha * opacity) \div 255) % 256
        renderShape == alpha > 0 \/ sdata.fill
        doStroke == flags \cap {"Stroke", "Transform"} # {}
        addStroking == (IF doShape /\ renderShape THEN 1 ELSE 0)
                           + (IF doStroke /\ strokeAlpha > 0 THEN 1 ELSE 0)
    IN  IF opacity = 0 THEN task
        ELSE [task EXCEPT
                 !.shape.rle = IF doShape /\ (renderShape \/ strokeAlpha > 0)
                               THEN renderShape ELSE @,
                 !.shape.strokeRle = IF doStroke THEN strokeAlpha > 0 ELSE @,
                 !.compStroking = (addStroking = 2 /\ opacity < 255)]

InitRenderer ==
    /\ surface = [initEngine |-> FALSE, rendererCnt |-> 0, mpool |-> "none"]
    /\ compositor = [t \in TaskIds |-> [allocated |-> FALSE]]
    /\ pc = [t \in TaskIds |-> "none"]
    /\ call = [op |-> "none"]
    /\ ret = TRUE
    /\ before = [termed |-> FALSE]

\* SwRenderer::init; mpoolInit succeeds or fails
SwRendererInit ==
    /\ \A t \in TaskIds : pc[t] = "none"
    /\ call' = [op |-> "init"]
    /\ UNCHANGED <<compositor, pc, before>>
    /\ \/ /\ surface.rendererCnt > 0
          /\ ret' = FALSE
          /\ UNCHANGED surface
       \/ /\ surface.rendererCnt = 0 /\ surface.initEngine
          /\ ret' = TRUE
          /\ UNCHANGED surface
       \/ /\ surface.rendererCnt = 0 /\ ~surface.initEngine
          /\ \E ok \in BOOLEAN :
                 /\ ret' = ok
                 /\ surface' = IF ok THEN [surface EXCEPT !.initEngine = TRUE, !.mpool = "live"]
                               ELSE surface

\* SwRenderer::term
SwRendererTerm ==
    /\ \A t \in TaskIds : pc[t] = "none"
    /\ call' = [op |-> "term"]
    /\ ret' = TRUE
    /\ UNCHANGED <<compositor, pc>>
    /\ IF ~surface.initEngine THEN UNCHANGED <<surface, before>>
       ELSE LET e == [surface EXCEPT !.initEngine = FALSE]
            IN  /\ surface' = termEngine(e).engine
                /\ before' = IF termEngine(e).term
                             THEN [termed |-> TRUE, mpool |-> e.mpool, rendererCnt |-> e.rendererCnt]
                             ELSE before

\* SwRenderer::gen
SwRendererGen ==
    /\ \A t \in TaskIds : pc[t] = "none"
    /\ surface.rendererCnt < MaxRenderers
    /\ surface' = [surface EXCEPT !.rendererCnt = @ + 1]
    /\ call' = [op |-> "gen"]
    /\ ret' = TRUE
    /\ UNCHANGED <<compositor, pc, before>>

\* SwRenderer::~SwRenderer of a renderer whose paints have been disposed
SwRendererDestroy ==
    /\ \A t \in TaskIds : pc[t] = "none"
    /\ surface.rendererCnt > 0
    /\ call' = [op |-> "destroy"]
    /\ ret' = TRUE
    /\ UNCHANGED <<compositor, pc>>
    /\ LET e == [surface EXCEPT !.rendererCnt = @ - 1]
       IN  IF e.initEngine THEN surface' = e /\ UNCHANGED before
           ELSE /\ surface' = termEngine(e).engine
                /\ before' = IF termEngine(e).term
                             THEN [termed |-> TRUE, mpool |-> e.mpool, rendererCnt |-> e.rendererCnt]
                             ELSE before

\* SwRenderer::prepare(Shape) with prepareCommon, on an initialised engine
\* with one renderer.  A task that does not exist is allocated: new leaves
\* its opacity and compStroking indeterminate.  With flags = None the task
\* is returned as it is; otherwise the renderer thread joins the task and
\* every composite target, stores the arguments (the composite list only if
\* it is not empty) and hands the task to the scheduler.
SwRendererPrepare ==
    /\ surface.initEngine /\ surface.rendererCnt = 1 /\ surface.mpool = "live"
    /\ \E t \in TaskIds, opacity \in {0, 128, 255},
          flags \in {{}, {"Color"},
                     {"Path", "Color", "Gradient", "Stroke", "Transform", "Image"}},
          compList \in SUBSET {1}, strokeAlpha \in {0, 255}, junk \in BOOLEAN :
           LET task == IF pc[t] = "none"
                       THEN [allocated |-> TRUE, opacity |-> IF junk THEN 128 ELSE 0,
                             flags |-> {}, compList |-> {},
                             sdata |-> [fillAlpha |-> 255, fill |-> FALSE,
                                        strokeAlpha |-> 0, strokeWidth |-> 2],
                             shape |-> [rle |-> FALSE, strokeRle |-> FALSE],
                             compStroking |-> junk]
                       ELSE compositor[t]
           IN  /\ pc[t] # "none" => ~junk
               \* the target is an opaque fill without stroke, prepared with All
               /\ t = 1 => (compList = {} /\ strokeAlpha = 0 /\ opacity = 255
                               /\ "Path" \in flags /\ ~junk)
               /\ \A c \in compList : pc[c] # "none"
               /\ call' = [op |-> "prepare", task |-> t]
               /\ ret' = TRUE
               /\ UNCHANGED <<surface, before>>
               /\ IF flags = {}
                  THEN /\ compositor' = [compositor EXCEPT ![t] = task]
                       /\ pc' = [pc EXCEPT ![t] = IF @ = "none" THEN "idle" ELSE @]
                  ELSE /\ done(pc, t)
                       /\ \A c \in compList : done(pc, c)
                       /\ compositor' =
                              [compositor EXCEPT ![t] =
                                  [task EXCEPT !.sdata.strokeAlpha = strokeAlpha,
                                               !.compList = IF compList # {} THEN compList ELSE @,
                                               !.opacity = opacity,
                                               !.flags = flags]]
                       /\ pc' = [pc EXCEPT ![t] = "queued"]

\* a worker takes the task from the queue and run starts
TaskStart ==
    \E t \in TaskIds :
        /\ pc[t] = "queued"
        /\ pc' = [pc EXCEPT ![t] = "build"]
        /\ UNCHANGED <<surface, compositor, call, ret, before>>

\* run reaches its composition loop
TaskCompose ==
    \E t \in TaskIds :
        /\ pc[t] = "build"
        /\ compositor[t].opacity # 0
        /\ pc' = [pc EXCEPT ![t] = "clip"]
        /\ UNCHANGED <<surface, compositor, call, ret, before>>

\* run returns: at once when the opacity is 0, else after the composition
TaskFinish ==
    \E t \in TaskIds :
        /\ \/ pc[t] = "build" /\ compositor[t].opacity = 0
           \/ pc[t] = "clip"
        /\ compositor' = [compositor EXCEPT ![t] = run(@)]
        /\ pc' = [pc EXCEPT ![t] = "idle"]
        /\ UNCHANGED <<surface, call, ret, before>>

\* SwRenderer::render(Shape): composite says whether fill and stroke go
\* through the off-screen surface
SwRendererRender ==
    /\ surface.rendererCnt > 0
    /\ \E t \in TaskIds :
           /\ pc[t] # "none"
           /\ done(pc, t)
           /\ call' = [op |-> "render", task |-> t,
                       composite |-> compositor[t].opacity # 0 /\ compositor[t].compStroking]
           /\ ret' = TRUE
           /\ UNCHANGED <<surface, compositor, pc, before>>

\* SwRenderer::dispose of a task that is in no other task's composite list
SwRendererDispose ==
    /\ surface.rendererCnt > 0
    /\ \E t \in TaskIds :
           /\ pc[t] # "none"
           /\ \A u \in TaskIds \ {t} : pc[u] # "none" => t \notin compositor[u].compList
           /\ done(pc, t)
           /\ pc' = [pc EXCEPT ![t] = "none"]
           /\ compositor' = [compositor EXCEPT ![t] = [allocated |-> FALSE]]
           /\ call' = [op |-> "dispose", task |-> t]
           /\ ret' = TRUE
           /\ UNCHANGED <<surface, before>>

NextRenderer ==
    \/ SwRendererInit
    \/ SwRendererTerm
    \/ SwRendererGen
    \/ SwRendererDestroy
    \/ SwRendererPrepare
    \/ TaskStart
    \/ TaskCompose
    \/ TaskFinish
    \/ SwRendererRender
    \/ SwRendererDispose

SpecRenderer == InitRenderer /\ [][NextRenderer]_vars


\* C25: in every interleaving of the renderer thread with the workers, render
\* starts rasterizing a task only after the task's preparation run has
\* completed, a task is handed to the scheduler again only after its previous
\* run has completed, and dispose frees a task only after its run has
\* completed.
C25_RunCompletesFirst ==
    [][\A t \in TaskIds :
           /\ (call' # call /\ call'.op = "render" /\ call'.task = t) => pc[t] = "idle"
           /\ (pc'[t] = "queued" /\ pc[t] # "queued") => pc[t] \in {"none", "idle"}
           /\ (pc'[t] = "none" /\ pc[t] # "none") => pc[t] = "idle"]_vars

\* task 2 was prepared twice and ran twice, and has been rendered after that
C25_Witness ==
    /\ call.op = "render"
    /\ call.task = 2
    /\ pc[2] = "idle"
    /\ compositor[2].flags = {"Color"}
    /\ compositor[2].shape.rle
    /\ compositor[2].compList = {1}

\* C26: while a task's run reads the shape of a composite target in its
\* compList, that target's own preparation run is not in progress.
C26_TargetsReadyWhenRead ==
    \A t \in TaskIds :
        pc[t] = "clip" => \A c \in compositor[t].compList : pc[c] \notin {"build", "clip"}

\* C27: mpoolTerm is invoked only after a successful mpoolInit, at most once
\* per mpoolInit, and never while a renderer instance exists.
C27_PoolLifecycleBracketed ==
    before.termed => (before.mpool = "live" /\ before.rendererCnt = 0)

\* the fill and the stroke the shape of a task currently has
RenderableFill(task) ==
    (task.sdata.fillAlpha * task.opacity) \div 255 > 0 \/ task.sdata.fill
RenderableStroke(task) ==
    task.sdata.strokeWidth > 0 /\ (task.sdata.strokeAlpha * task.opacity) \div 255 > 0

\* C29: when run finishes, compStroking is true exactly when the shape has
\* both a renderable fill and a renderable stroke and the task opacity is
\* below 255, and render composites fill and stroke through the off-screen
\* surface exactly in that case.
C29_CompStrokingTracksShape ==
    [][\A t \in TaskIds :
           /\ (pc[t] = "clip" /\ pc'[t] = "idle") =>
                  (compositor'[t].compStroking <=>
                       (RenderableFill(compositor'[t]) /\ RenderableStroke(compositor'[t])
                            /\ compositor'[t].opacity < 255))
           /\ (call' # call /\ call'.op = "render" /\ call'.task = t
                   /\ compositor[t].flags # {} /\ compositor[t].opacity # 0) =>
                  (call'.composite <=>
                       (RenderableFill(compositor[t]) /\ RenderableStroke(compositor[t])
                            /\ compositor[t].opacity < 255))]_vars


(***************************************************************************)
(* IntersectMask over a span list.                                         *)
(***************************************************************************)
IntersectRleCall ==
    /\ pc = "done"
    /\ surface.channelSize = 4
    /\ compositor.present
    /\ compositor.method = "IntersectMask"
    /\ \/ call.op = "rasterShape" /\ ~call.shape.fastTrack /\ ~call.shape.rle.null
       \/ /\ call.op = "rasterImage" /\ call.image.direct /\ ~call.image.rle.null
          /\ call.bbox = FullBBox

\* the alpha of the source at pixel k of a span: the coverage-scaled colour,
\* or the image pixel scaled by coverage and opacity
IntersectSrcAlpha(span, k) ==
    IF call.op = "rasterShape"
    THEN LET m(c) == IF call.color[4] < 255 THEN MULTIPLY(c, call.color[4]) ELSE c
         IN  ALPHA32(SpanSrc(Join(surface, m(call.color[1]), m(call.color[2]),
                                  m(call.color[3]), call.color[4]), span))
    ELSE LET p == call.image.buf[(span.y + call.image.oy) * call.image.stride
                                 + (span.x + call.image.ox) + k]
             alpha == MULTIPLY(span.coverage, call.opacity)
         IN  IF alpha = 255 THEN ALPHA32(p) ELSE ALPHA32(ALPHA_BLEND(p, alpha))

\* every span of the list inside the bbox applied once, the rest of the bbox zeroed
IntersectBySpans(spans, bbox, stride, cbuf) ==
    [k \in DOMAIN cbuf |->
        LET x == k % stride
            y == k \div stride
            hit == {i \in 1..Len(spans) :
                       /\ spans[i].y = y /\ spans[i].x <= x /\ x < spans[i].x + spans[i].len
                       /\ spans[i].x >= bbox.min.x /\ spans[i].x + spans[i].len <= bbox.max.x}
        IN  IF ~InRegion(bbox, x, y) THEN cbuf[k]
            ELSE IF hit = {} THEN Zero32
            ELSE LET i == CHOOSE j \in hit : TRUE
                 IN  ALPHA_BLEND(cbuf[k], IntersectSrcAlpha(spans[i], x - spans[i].x))]

\* C28: in the IntersectMask RLE loops the span cursor is dereferenced only
\* while it points at one of the rle->size spans of the list, so what lies
\* past the list has no effect: every span of the list inside the compositor
\* bbox is applied exactly once and all other bbox pixels are zeroed.
C28_IntersectCursorStaysInList ==
    IntersectRleCall =>
        compositor.image.buf =
            IntersectBySpans(IF call.op = "rasterShape" THEN call.shape.rle.spans
                             ELSE call.image.rle.spans,
                             compositor.bbox, compositor.image.stride, before.cmp)


(***************************************************************************)
(* Scene::Impl::bounds: the merged bounds of the scene's child paints.     *)
(* Coordinates are integers; FltMax stands for FLT_MAX.  A child is the    *)
(* outcome of its own bounds(): ok and the rectangle it wrote, or not ok   *)
(* with its outputs left as they were.                                     *)
(***************************************************************************)
FltMax == 1000000
MaxPaints == 2

bounds(paints) ==
    LET RECURSIVE merge(_, _, _, _, _)
        merge(i, x, y, w, h) ==
            IF i > Len(paints) THEN [ok |-> TRUE, x |-> x, y |-> y, w |-> w, h |-> h]
            ELSE LET paint == paints[i]
                     x2 == IF paint.ok THEN paint.x ELSE FltMax
                     y2 == IF paint.ok THEN paint.y ELSE FltMax
                     w2 == IF paint.ok THEN paint.w ELSE 0
                     h2 == IF paint.ok THEN paint.h ELSE 0
                 IN  IF paint.ok THEN [ok |-> FALSE]
                     ELSE LET nx == IF x2 < x THEN x2 ELSE x
                              nw == IF nx + w < x2 + w2 THEN (x2 + w2) - nx ELSE w
                              ny == IF y2 < y THEN x2 ELSE y
                              nh == IF ny + h < y2 + h2 THEN (y2 + h2) - ny ELSE h
                          IN  merge(i + 1, nx, ny, nw, nh)
    IN  merge(1, FltMax, FltMax, 0, 0)

InitScene ==
    /\ \E n \in 0..MaxPaints :
       \E paints \in [1..n -> [ok : {TRUE}, x : {0, 1, 5}, y : {0, 2}, w : {1, 3}, h : {1, 2}]
                              \cup {[ok |-> FALSE]}] :
           call = [op |-> "none", paints |-> paints]
    /\ surface = NullSurface
    /\ compositor = NoCompositor
    /\ pc = "idle"
    /\ ret = FALSE
    /\ before = [paints |-> call.paints]

SceneBounds ==
    /\ pc = "idle"
    /\ ret' = bounds(call.paints)
    /\ call' = [call EXCEPT !.op = "bounds"]
    /\ pc' = "done"
    /\ UNCHANGED <<surface, compositor, before>>

SpecScene == InitScene /\ [][SceneBounds]_vars

\* C30: whenever every child reports its bounds successfully, bounds returns
\* true and reports the smallest axis-aligned rectangle (x, y, w, h) that
\* contains the bounds of every child, whatever the order of the children.
C30_BoundsIsUnionOfChildren ==
    (/\ pc = "done" /\ call.op = "bounds"
     /\ \A i \in DOMAIN call.paints : call.paints[i].ok) =>
        /\ ret.ok
        /\ call.paints # <<>> =>
             LET ps == {call.paints[i] : i \in DOMAIN call.paints}
                 Min(S) == CHOOSE m \in S : \A e \in S : m <= e
                 Max(S) == CHOOSE m \in S : \A e \in S : m >= e
                 left == Min({p.x : p \in ps})
                 top == Min({p.y : p \in ps})
             IN  /\ ret.x = left
                 /\ ret.y = top
                 /\ ret.w = Max({p.x + p.w : p \in ps}) - left
                 /\ ret.h = Max({p.y + p.h : p \in ps}) - top

====
